---- MODULE Spec2Model ----
(***************************************************************************)
(* The tag-editing dialog of the music player (EditTagDialog): the batch   *)
(* of songs being edited (data_), the busy flag (loading_), the count of   *)
(* outstanding writes (pending_), the background load, the asynchronous    *)
(* writes and their completions.  Rows are 1-based here (Qt rows are       *)
(* 0-based); a file is named by its number in Files.                       *)
(***************************************************************************)
EXTENDS Integers, Sequences, FiniteSets, Bags, TLC

\* ------------------------------------------------------------- bounds
\* The largest number of songs handed to one SetSongs call.
MaxBatch == 2

\* ------------------------------------------------------ the songs on disk
\* The files the caller can hand to the dialog.
Files == {1, 2, 3, 4, 5}
\* Files whose tags cannot be read any more: the re-read song is not valid.
Corrupt == {4}
\* Songs that are not editable (Song::IsEditable is false).
NotEditable == {5}
\* Songs that belong to the collection (Song::is_collection_song).
CollectionFiles == {1, 2}

\* The value of last-played that means "never played".
NeverPlayed == -1
\* The id of a song that is in no collection.
NoId == -1

\* The 14 editable fields, by the object name of their editor.
StringKeys == {"title", "artist", "album", "albumartist", "composer",
               "performer", "grouping", "genre", "comment", "lyrics"}
IntKeys == {"track", "disc", "year"}
BoolKeys == {"compilation"}
FieldKeys == StringKeys \cup IntKeys \cup BoolKeys

\* The song as the caller (playlist, collection) holds it: its tags may be
\* stale, its statistics and manual cover are the user's.
CallerSong(f) ==
  [url |-> f, id |-> IF f \in CollectionFiles THEN f ELSE NoId,
   valid |-> TRUE, editable |-> f \notin NotEditable,
   collection |-> f \in CollectionFiles,
   title |-> "S", artist |-> "R", album |-> IF f = 3 THEN "W" ELSE "X",
   albumartist |-> "Y", composer |-> "", performer |-> "", grouping |-> "",
   genre |-> "", comment |-> "", lyrics |-> "",
   track |-> 1, disc |-> 1, year |-> 1999, compilation |-> FALSE,
   art_manual |-> "", playcount |-> 5, skipcount |-> 2, lastplayed |-> 100]

\* Song::IsEditable.
IsEditable(song) == song.valid /\ song.editable

\* TagReaderClient::ReadFileBlocking(file, &copy): the tags of copy are
\* replaced by those in the file; the statistics and the manual cover are not
\* stored in the file; a file that cannot be read leaves an invalid song.
ReadFileBlocking(copy) ==
  [copy EXCEPT !.valid = copy.url \notin Corrupt,
               !.title = "A",
               !.art_manual = "",
               !.playcount = 0, !.skipcount = 0, !.lastplayed = NeverPlayed]

\* Song::MergeUserSetData(other): the user's data of the old song object is
\* carried over to the re-read one.
MergeUserSetData(copy, song) ==
  [copy EXCEPT !.playcount = song.playcount, !.skipcount = song.skipcount,
               !.lastplayed = song.lastplayed, !.art_manual = song.art_manual]

\* EditTagDialog::Data::Data(song): both records start as the loaded song.
Data(song) == [original_ |-> song, current_ |-> song]

\* A plausible slip in LoadData: an invalid re-read song is kept.
RECURSIVE LoadDataKeepInvalid(_)
LoadDataKeepInvalid(songs) ==
  IF songs = <<>> THEN <<>>
  ELSE LET song == Head(songs)
           copy == ReadFileBlocking(song)
           rest == LoadDataKeepInvalid(Tail(songs))
       IN IF IsEditable(song)
          THEN <<Data(MergeUserSetData(copy, song))>> \o rest
          ELSE rest

\* EditTagDialog::LoadData: every editable song is re-read from its file and
\* kept, in order, if the re-read song is valid.
RECURSIVE LoadData(_)
LoadData(songs) ==
  IF songs = <<>> THEN <<>>
  ELSE LET song == Head(songs)
           copy == ReadFileBlocking(song)
           rest == LoadData(Tail(songs))
       IN IF IsEditable(song) /\ copy.valid
          THEN <<Data(MergeUserSetData(copy, song))>> \o rest
          ELSE rest

\* All sequences over S of length at most n.
RECURSIVE SeqsOver(_, _)
SeqsOver(S, n) ==
  IF n = 0 THEN {<<>>}
  ELSE LET shorter == SeqsOver(S, n - 1)
       IN shorter \cup {Append(q, x) : q \in shorter, x \in S}
NoRepeat(q) == \A i, j \in DOMAIN q : i # j => q[i] # q[j]
Increasing(q) == \A i, j \in DOMAIN q : i < j => q[i] < q[j]

\* The batches a caller may request: at most MaxBatch distinct files, here in
\* the order of their numbers.
Batches == {[i \in DOMAIN q |-> CallerSong(q[i])] :
              q \in {p \in SeqsOver(Files, MaxBatch) : Increasing(p)}}

\* ------------------------------------------------------------ QVariant
\* A QVariant is a typed value; an invalid one is QVariant().
Invalid == [t |-> "invalid", v |-> 0]
QStr(s) == [t |-> "str", v |-> s]
QInt(n) == [t |-> "int", v |-> n]
QBool(b) == [t |-> "bool", v |-> b]

\* QString::number for the integers of the model, and its inverse.
Digits == <<"0", "1", "2", "3", "4", "5", "6", "7", "8", "9">>
NumberToString(n) == IF n \in 0..9 THEN Digits[n + 1] ELSE "?"
StringToNumber(s) ==
  IF \E n \in 0..9 : Digits[n + 1] = s
  THEN CHOOSE n \in 0..9 : Digits[n + 1] = s
  ELSE 0

\* QVariant::toString, toInt, toBool.
toString(q) ==
  CASE q.t = "str" -> q.v
    [] q.t = "int" -> NumberToString(q.v)
    [] q.t = "bool" -> IF q.v THEN "true" ELSE "false"
    [] OTHER -> ""
toInt(q) ==
  CASE q.t = "int" -> q.v
    [] q.t = "str" -> StringToNumber(q.v)
    [] q.t = "bool" -> IF q.v THEN 1 ELSE 0
    [] OTHER -> 0
toBool(q) ==
  CASE q.t = "bool" -> q.v
    [] q.t = "int" -> q.v # 0
    [] q.t = "str" -> q.v \notin {"", "0", "false"}
    [] OTHER -> FALSE

\* EditTagDialog::Data::value: the field of a song named by id, as a
\* QVariant; an unknown id gives QVariant().
value(song, id) ==
  CASE id = "title" -> QStr(song.title)
    [] id = "artist" -> QStr(song.artist)
    [] id = "album" -> QStr(song.album)
    [] id = "albumartist" -> QStr(song.albumartist)
    [] id = "composer" -> QStr(song.composer)
    [] id = "performer" -> QStr(song.performer)
    [] id = "grouping" -> QStr(song.grouping)
    [] id = "genre" -> QStr(song.genre)
    [] id = "comment" -> QStr(song.comment)
    [] id = "lyrics" -> QStr(song.lyrics)
    [] id = "track" -> QInt(song.track)
    [] id = "disc" -> QInt(song.disc)
    [] id = "year" -> QInt(song.year)
    [] id = "compilation" -> QBool(song.compilation)
    [] OTHER -> Invalid

original_value(d, id) == value(d.original_, id)
current_value(d, id) == value(d.current_, id)

\* A plausible slip in set_value: the value is written into the original.
set_value_original(d, id, v) ==
  IF id \in StringKeys THEN [d EXCEPT !.original_[id] = toString(v)]
  ELSE IF id \in IntKeys THEN [d EXCEPT !.original_[id] = toInt(v)]
  ELSE IF id \in BoolKeys THEN [d EXCEPT !.original_[id] = toBool(v)]
  ELSE d

\* A plausible slip in set_value: "disc" is written into the track.
set_value_wrong_field(d, id, v) ==
  CASE id \in StringKeys -> [d EXCEPT !.current_[id] = toString(v)]
    [] id = "track" -> [d EXCEPT !.current_.track = toInt(v)]
    [] id = "disc" -> [d EXCEPT !.current_.track = toInt(v)]
    [] id = "year" -> [d EXCEPT !.current_.year = toInt(v)]
    [] id = "compilation" -> [d EXCEPT !.current_.compilation = toBool(v)]
    [] OTHER -> d

\* A plausible slip in set_value: the last branch has lost its test, so an
\* unknown id is written into the compilation flag.
set_value_last_branch(d, id, v) ==
  IF id \in StringKeys THEN [d EXCEPT !.current_[id] = toString(v)]
  ELSE IF id \in IntKeys THEN [d EXCEPT !.current_[id] = toInt(v)]
  ELSE [d EXCEPT !.current_.compilation = toBool(v)]

\* EditTagDialog::Data::set_value: the value, converted to the type of the
\* field, is written into current_; an unknown id changes nothing.
set_value(d, id, v) ==
  CASE id = "title" -> [d EXCEPT !.current_.title = toString(v)]
    [] id = "artist" -> [d EXCEPT !.current_.artist = toString(v)]
    [] id = "album" -> [d EXCEPT !.current_.album = toString(v)]
    [] id = "albumartist" -> [d EXCEPT !.current_.albumartist = toString(v)]
    [] id = "composer" -> [d EXCEPT !.current_.composer = toString(v)]
    [] id = "performer" -> [d EXCEPT !.current_.performer = toString(v)]
    [] id = "grouping" -> [d EXCEPT !.current_.grouping = toString(v)]
    [] id = "genre" -> [d EXCEPT !.current_.genre = toString(v)]
    [] id = "comment" -> [d EXCEPT !.current_.comment = toString(v)]
    [] id = "lyrics" -> [d EXCEPT !.current_.lyrics = toString(v)]
    [] id = "track" -> [d EXCEPT !.current_.track = toInt(v)]
    [] id = "disc" -> [d EXCEPT !.current_.disc = toInt(v)]
    [] id = "year" -> [d EXCEPT !.current_.year = toInt(v)]
    [] id = "compilation" -> [d EXCEPT !.current_.compilation = toBool(v)]
    [] OTHER -> d

\* A plausible slip in DoesValueVary: the loop starts one row too late.
DoesValueVaryFromThird(data, sel, id) ==
  \E i \in 3..Len(sel) :
     current_value(data[sel[1]], id) # current_value(data[sel[i]], id)

\* EditTagDialog::DoesValueVary: whether a later selected song's current
\* value differs from that of the first selected song.
DoesValueVary(data, sel, id) ==
  \E i \in 2..Len(sel) :
     current_value(data[sel[1]], id) # current_value(data[sel[i]], id)

\* A plausible slip in IsValueModified: every selected song must differ.
IsValueModifiedAll(data, sel, id) ==
  \A i \in 1..Len(sel) :
     original_value(data[sel[i]], id) # current_value(data[sel[i]], id)

\* EditTagDialog::IsValueModified: whether some selected song's current
\* value differs from its original value.
IsValueModified(data, sel, id) ==
  \E i \in 1..Len(sel) :
     original_value(data[sel[i]], id) # current_value(data[sel[i]], id)

\* A plausible slip in UpdateFieldValue: the loop runs over every row of
\* data_, not over the selection.
UpdateFieldValueAllRows(data, id, sel, v) ==
  IF v.t = "invalid" THEN data
  ELSE [r \in DOMAIN data |-> set_value(data[r], id, v)]

\* EditTagDialog::UpdateFieldValue: an invalid editor value is dropped;
\* otherwise the value is set in each selected song.
UpdateFieldValue(data, id, sel, v) ==
  IF v.t = "invalid" THEN data
  ELSE [r \in DOMAIN data |->
          IF \E i \in DOMAIN sel : sel[i] = r
          THEN set_value(data[r], id, v) ELSE data[r]]

\* A plausible slip in ResetFieldValue: only the first selected song is reset.
ResetFieldValueFirst(data, id, sel) ==
  [r \in DOMAIN data |->
     IF sel # <<>> /\ sel[1] = r
     THEN set_value(data[r], id, original_value(data[r], id)) ELSE data[r]]

\* EditTagDialog::ResetFieldValue: each selected song's current value is set
\* to its original value.
ResetFieldValue(data, id, sel) ==
  [r \in DOMAIN data |->
     IF \E i \in DOMAIN sel : sel[i] = r
     THEN set_value(data[r], id, original_value(data[r], id)) ELSE data[r]]

\* Song::IsMetadataEqual: the editable fields and the manual cover agree.
IsMetadataEqual(a, b) ==
  /\ \A id \in FieldKeys : value(a, id) = value(b, id)
  /\ a.art_manual = b.art_manual

\* ---------------------------------------------------------------- state
VARIABLES
  loading_,        \* the busy flag
  ui_,             \* which widgets are enabled, and the loading label's text
  shown,           \* the dialog is visible
  data_,           \* the entries: a sequence of [original_, current_]
  sel,             \* the selected rows, in the order Qt reports them
  pending_,        \* the count of outstanding writes
  futures,         \* the background loads that have not reported yet
  replies,         \* the writes that have not completed yet
  results_songs,   \* the files the tag-fetch results dialog was opened with
  loaded_request,  \* the argument of the SetSongs call that started a load
  latest_request,  \* the latest SetSongs argument while a load is outstanding
  superseded,      \* another batch was requested while the shown one loaded
  committed,       \* accept has started a commit since the last load
  issued,          \* the files written by the running commit, in order
  outcome,         \* the completed writes of the commit: <<file, success>>
  errors,          \* the Error signals of the commit: [filename, pending]
  upserts,         \* the songs handed to the collection backend, a bag
  accepted,        \* how often the commit closed the dialog
  pfield,          \* field runs: the field whose editor is used
  pdata,           \* field runs: the entries
  psel,            \* field runs: the selected rows
  plast,           \* field runs: the last operation and its value
  reset_requests,  \* the ids handed to ResetStatisticsAsync, in order
  alive,           \* the dialog object has not been destroyed
  cover_art_id_,   \* the id of the dialog's latest cover load request
  ui_art,          \* the cover the summary tab displays (ui_->art)
  image_original,  \* the dialog's original_ image: the loaded cover, unscaled
  loads,           \* the cover loader's requests, completed or not
  loader_id,       \* the id the cover loader gave to its latest request
  fault,           \* a null song or an empty selection has been accessed
  service_,        \* Tidal: the service is there and is authenticated
  replies_,        \* Tidal: the replies the cover provider keeps, in order
  network,         \* Tidal: the requests sent whose reply has not finished
  search_finished, \* Tidal: the SearchFinished signals emitted, in order
  sent,            \* Tidal: the requests handed to the network, in order
  cancelled,       \* Tidal: the ids CancelSearch was called with
  started,         \* Tidal: the last StartSearch call and what it returned
  aborted,         \* Tidal: the replies aborted by the destructor
  provider_alive,  \* Tidal: the cover provider has not been destroyed
  current_row      \* the current row of the song list, from 0; -1 when none

dialogVars == <<loading_, ui_, shown, data_, sel, pending_, futures, replies,
                results_songs>>
loadLog == <<loaded_request, latest_request, superseded>>
commitLog == <<committed, issued, outcome, errors, upserts, accepted>>
probeVars == <<pfield, pdata, psel, plast, reset_requests, alive>>
artVars == <<cover_art_id_, ui_art, image_original, loads, loader_id, fault>>
tidalVars == <<service_, replies_, network, search_finished, sent,
               cancelled, started, aborted, provider_alive>>
listVars == <<current_row>>
serviceVars == <<artVars, tidalVars, listVars>>

kLoadingTracks == "Loading tracks..."
kSavingTracks == "Saving tracks..."

\* A plausible slip in SetLoading: the state is entered again when set.
SetLoadingAlways(message) == TRUE

\* EditTagDialog::SetLoading, its result: whether the busy flag changes.
SetLoadingChanges(message) == (message # "") # loading_

\* EditTagDialog::SetLoading, its effect on the widgets.
SetLoadingUi(message) ==
  LET loading == message # ""
  IN [button_box |-> ~loading, tab_widget |-> ~loading,
      song_list |-> ~loading, fetch_tag |-> ~loading,
      loading_label |-> message]

\* What the selection model can report: the rows in any order, none twice.
Selections(n) == {q \in SeqsOver(1..n, n) : NoRepeat(q)}

\* selectAll: every row, in row order.
AllRows(n) == [i \in 1..n |-> i]

NoCommit ==
  /\ committed' = FALSE
  /\ issued' = <<>>
  /\ outcome' = {}
  /\ errors' = {}
  /\ upserts' = EmptyBag
  /\ accepted' = 0

\* --------------------------------------------------------------- loading
\* EditTagDialog::SetSongs, followed by the caller's show().
SetSongs(s) ==
  IF ~SetLoadingChanges(kLoadingTracks)
  THEN /\ latest_request' = IF futures # {} THEN <<s>> ELSE latest_request
       /\ superseded' = (superseded \/ (futures # {} /\ s # loaded_request))
       /\ shown' = TRUE
       /\ UNCHANGED <<loading_, ui_, data_, sel, pending_, futures, replies,
                      results_songs, loaded_request>>
       /\ UNCHANGED <<commitLog, probeVars, serviceVars>>
  ELSE /\ loading_' = TRUE
       /\ ui_' = SetLoadingUi(kLoadingTracks)
       /\ shown' = TRUE
       /\ data_' = <<>>
       /\ sel' = <<>>
       /\ futures' = futures \cup {s}
       /\ loaded_request' = s
       /\ latest_request' = <<s>>
       /\ superseded' = FALSE
       /\ NoCommit
       /\ current_row' = -1
       /\ UNCHANGED <<pending_, replies, results_songs>>
       /\ UNCHANGED <<probeVars, artVars, tidalVars>>

\* EditTagDialog::SetSongsFinished, for the load of batch s.
SetSongsFinished(s) ==
  /\ s \in futures
  /\ futures' = futures \ {s}
  /\ latest_request' = <<>>
  /\ IF ~SetLoadingChanges("")
     THEN UNCHANGED <<loading_, ui_, data_, sel, current_row>>
     ELSE LET result == LoadData(s)
          IN /\ loading_' = FALSE
             /\ data_' = result
             /\ IF Len(result) = 0
                THEN /\ ui_' = [SetLoadingUi("") EXCEPT !.song_list = FALSE,
                                                        !.tab_widget = FALSE]
                     /\ sel' = <<>>
                     /\ current_row' = current_row
                ELSE /\ ui_' = SetLoadingUi("")
                     /\ sel' = AllRows(Len(result))
                     /\ current_row' = 0
  /\ UNCHANGED <<shown, pending_, replies, results_songs, loaded_request,
                 superseded>>
  /\ UNCHANGED <<commitLog, probeVars, artVars, tidalVars>>

\* ---------------------------------------------------------------- saving
\* A plausible slip in SaveData: every entry is written, changed or not.
SaveDataAll(tag_data) ==
  [i \in DOMAIN tag_data |->
     [filename |-> tag_data[i].current_.url, song |-> tag_data[i].current_]]

\* EditTagDialog::SaveData, the writes it requests: one for each entry whose
\* current differs from its original, carrying the current record.
RECURSIVE SaveData(_)
SaveData(tag_data) ==
  IF tag_data = <<>> THEN <<>>
  ELSE LET ref == Head(tag_data)
           rest == SaveData(Tail(tag_data))
       IN IF IsMetadataEqual(ref.current_, ref.original_) THEN rest
          ELSE <<[filename |-> ref.current_.url, song |-> ref.current_]>>
               \o rest

\* A plausible slip in SaveData and SongSaveComplete: the commit is finished
\* only when the count has gone below zero.
CommitDoneBelowZero(pending) == pending < 0

\* The test of SaveData and SongSaveComplete that finishes the commit.
CommitDone(pending) == pending <= 0

\* EditTagDialog::SaveData(data_) and the AcceptFinished it may call; the
\* busy flag has just been set by accept.
SaveDataStep ==
  LET writes == SaveData(data_)
      pending == pending_ + Len(writes)
  IN /\ pending_' = pending
     /\ replies' = replies \cup {writes[i] : i \in DOMAIN writes}
     /\ committed' = TRUE
     /\ issued' = [i \in DOMAIN writes |-> writes[i].filename]
     /\ outcome' = {}
     /\ errors' = {}
     /\ upserts' = EmptyBag
     /\ IF CommitDone(pending)
        THEN \* AcceptFinished: SetLoading(QString()) succeeds, the dialog closes
             /\ loading_' = FALSE
             /\ ui_' = SetLoadingUi("")
             /\ shown' = FALSE
             /\ accepted' = 1
        ELSE /\ loading_' = TRUE
             /\ ui_' = SetLoadingUi(kSavingTracks)
             /\ shown' = shown
             /\ accepted' = 0

\* EditTagDialog::accept.
accept ==
  IF ~SetLoadingChanges(kSavingTracks)
  THEN UNCHANGED <<dialogVars, loadLog, commitLog, probeVars, serviceVars>>
  ELSE /\ SaveDataStep
       /\ UNCHANGED <<data_, sel, futures, results_songs>>
       /\ UNCHANGED <<loadLog, probeVars, serviceVars>>

\* A plausible slip in SongSaveComplete: the collection test comes first, so
\* a failed write of a collection song is upserted and not reported.
CompletionCollectionFirst(success, song) ==
  IF song.collection THEN "upsert"
  ELSE IF ~success THEN "error" ELSE "none"

\* SongSaveComplete, what a completion does besides counting: a failed write
\* emits Error, a successful write of a collection song is handed to the
\* collection backend.
Completion(success, song) ==
  IF ~success THEN "error"
  ELSE IF song.collection THEN "upsert" ELSE "none"

\* A plausible slip in SongSaveComplete: the errors are held back until the
\* last write has completed, and only the last failure is then emitted.
EmitsErrorWhenLast(what, pending) == what = "error" /\ pending <= 0

\* SongSaveComplete: Error is emitted at once, whatever is still pending.
EmitsError(what, pending) == what = "error"

\* A plausible variant of SongSaveComplete: the entry of a file whose write
\* succeeded takes the written song as its original record.
SavedBecomesOriginal(data, reply, success) ==
  [r \in DOMAIN data |->
     IF success /\ data[r].original_.url = reply.filename
     THEN [data[r] EXCEPT !.original_ = reply.song] ELSE data[r]]

\* EditTagDialog::SongSaveComplete, the entries after it: it reads the reply
\* and the song it was handed and assigns nothing to data_.
DataAfterSave(data, reply, success) == data

\* EditTagDialog::SongSaveComplete for one write, which succeeded or failed.
SongSaveComplete(reply, success) ==
  /\ reply \in replies
  /\ replies' = replies \ {reply}
  /\ LET pending == pending_ - 1
         what == Completion(success, reply.song)
     IN /\ pending_' = pending
        /\ outcome' = outcome \cup {<<reply.filename, success>>}
        /\ errors' = IF EmitsError(what, pending)
                     THEN errors \cup {[filename |-> reply.filename,
                                        pending |-> pending]}
                     ELSE errors
        /\ upserts' = IF what = "upsert"
                      THEN upserts (+) SetToBag({reply.song})
                      ELSE upserts
        /\ IF CommitDone(pending) /\ SetLoadingChanges("")
           THEN \* AcceptFinished closes the dialog
                /\ loading_' = FALSE
                /\ ui_' = SetLoadingUi("")
                /\ shown' = FALSE
                /\ accepted' = accepted + 1
           ELSE UNCHANGED <<loading_, ui_, shown, accepted>>
  /\ data_' = DataAfterSave(data_, reply, success)
  /\ UNCHANGED <<sel, futures, results_songs, committed, issued>>
  /\ UNCHANGED <<loadLog, probeVars, serviceVars>>

\* EditTagDialog::ButtonClicked(Discard): the dialog is rejected and closes.
ButtonClicked ==
  /\ shown /\ ui_.button_box
  /\ shown' = FALSE
  /\ UNCHANGED <<loading_, ui_, data_, sel, pending_, futures, replies,
                 results_songs>>
  /\ UNCHANGED <<loadLog, commitLog, probeVars, serviceVars>>

\* --------------------------------------------------------------- editing
\* The fields whose editors the user works in, and what he can enter: a line
\* edit gives a string, a spin box an integer.
EditedKeys == {"title"}
EditorValues(id) ==
  CASE id \in StringKeys -> {QStr("B")}
    [] id \in IntKeys -> {QInt(2)}
    [] id \in BoolKeys -> {QBool(TRUE)}
    [] OTHER -> {Invalid}

\* QItemSelectionModel::selectionChanged -> EditTagDialog::SelectionChanged:
\* the user selects other rows of the song list; the handler only redraws.
SelectionChanged(q) ==
  /\ shown /\ ui_.song_list
  /\ q \in Selections(Len(data_))
  /\ sel' = q
  /\ UNCHANGED <<loading_, ui_, shown, data_, pending_, futures, replies,
                 results_songs>>
  /\ UNCHANGED <<loadLog, commitLog, probeVars, serviceVars>>

\* EditTagDialog::FieldValueEdited: the user changed the editor of field id,
\* which now holds v.
FieldValueEdited(id, v) ==
  /\ shown /\ ui_.tab_widget
  /\ data_' = IF sel = <<>> THEN data_ ELSE UpdateFieldValue(data_, id, sel, v)
  /\ UNCHANGED <<loading_, ui_, shown, sel, pending_, futures, replies,
                 results_songs>>
  /\ UNCHANGED <<loadLog, commitLog, probeVars, serviceVars>>

\* EditTagDialog::ResetField: the user reset the editor of field id.
ResetField(id) ==
  /\ shown /\ ui_.tab_widget
  /\ data_' = IF sel = <<>> THEN data_ ELSE ResetFieldValue(data_, id, sel)
  /\ UNCHANGED <<loading_, ui_, shown, sel, pending_, futures, replies,
                 results_songs>>
  /\ UNCHANGED <<loadLog, commitLog, probeVars, serviceVars>>

\* EditTagDialog::FetchTag: the results dialog is opened with the valid
\* songs of the selection.
FetchTag ==
  /\ shown /\ ui_.fetch_tag
  /\ LET songs == {data_[sel[i]].original_.url : i \in
                     {j \in DOMAIN sel : data_[sel[j]].original_.valid}}
     IN results_songs' = IF songs = {} THEN results_songs ELSE songs
  /\ UNCHANGED <<loading_, ui_, shown, data_, sel, pending_, futures, replies>>
  /\ UNCHANGED <<loadLog, commitLog, probeVars, serviceVars>>

\* What the tag fetcher found for the song of file f: another title; the
\* artist, album, track and year are those the file already has.
NewMetadata(f) ==
  LET song == ReadFileBlocking(CallerSong(f))
  IN [title |-> "B", artist |-> song.artist, album |-> song.album,
      track |-> song.track, year |-> song.year]

\* The row of the first entry whose file is f, 0 if there is none
\* (std::find_if over data_).
FindRow(data, f) ==
  IF \E r \in DOMAIN data : data[r].original_.url = f
  THEN CHOOSE r \in DOMAIN data :
         /\ data[r].original_.url = f
         /\ \A q \in DOMAIN data : data[q].original_.url = f => r <= q
  ELSE 0

\* EditTagDialog::FetchTagSongChosen, its effect on data_: the fetched
\* title, artist, album, track and year are written into the current record of
\* the entry of that file.
ApplyFetchedTags(data, f, meta) ==
  LET r == FindRow(data, f)
  IN IF r = 0 THEN data
     ELSE [data EXCEPT ![r].current_.title = meta.title,
                       ![r].current_.artist = meta.artist,
                       ![r].current_.album = meta.album,
                       ![r].current_.track = meta.track,
                       ![r].current_.year = meta.year]

\* TrackSelectionDialog::SongChosen -> EditTagDialog::FetchTagSongChosen: the
\* user took the fetched tags for the song of file f in the results dialog.
FetchTagSongChosen(f, meta) ==
  /\ shown
  /\ f \in results_songs
  /\ results_songs' = results_songs \ {f}
  /\ data_' = ApplyFetchedTags(data_, f, meta)
  /\ UNCHANGED <<loading_, ui_, shown, sel, pending_, futures, replies>>
  /\ UNCHANGED <<loadLog, commitLog, probeVars, serviceVars>>

\* ------------------------------------------------------- the dialog's runs
\* The cover of a song that has none (the picture of a CD case).
NoCover == [url |-> 0, art_manual |-> "cdcase"]
\* What StartSearch has been called with, before its first call.
NotStarted == [op |-> "none"]

\* EditTagDialog::EditTagDialog, the cover of the summary tab: no load has
\* been requested (cover_art_id_(0)); the cover loader is idle.
ArtInit ==
  /\ cover_art_id_ = 0
  /\ ui_art = NoCover
  /\ image_original = NoCover
  /\ loads = {}
  /\ loader_id = 0
  /\ fault = FALSE

\* TidalCoverProvider::TidalCoverProvider: the provider holds its service
\* and no reply.
TidalIdle ==
  /\ replies_ = <<>>
  /\ network = {}
  /\ search_finished = <<>>
  /\ sent = <<>>
  /\ cancelled = {}
  /\ started = NotStarted
  /\ aborted = {}
  /\ provider_alive = TRUE

\* The dialog after its constructor, whatever service the provider holds.
EditTagDialogInit ==
  /\ ArtInit
  /\ TidalIdle
  /\ current_row = -1
  /\ loading_ = FALSE
  /\ ui_ = SetLoadingUi("")
  /\ shown = FALSE
  /\ data_ = <<>>
  /\ sel = <<>>
  /\ pending_ = 0
  /\ futures = {}
  /\ replies = {}
  /\ results_songs = {}
  /\ loaded_request = <<>>
  /\ latest_request = <<>>
  /\ superseded = FALSE
  /\ committed = FALSE
  /\ issued = <<>>
  /\ outcome = {}
  /\ errors = {}
  /\ upserts = EmptyBag
  /\ accepted = 0
  /\ reset_requests = <<>>
  /\ alive = TRUE

NoOp == [op |-> "none", v |-> Invalid]


\* The dialog after its constructor, the provider holding a service that is
\* logged in.
DialogInit ==
  /\ EditTagDialogInit
  /\ service_ = [present |-> TRUE, authenticated |-> TRUE]

Init ==
  /\ DialogInit
  /\ pfield = "title"
  /\ pdata = <<>>
  /\ psel = <<>>
  /\ plast = NoOp

Next ==
  \/ \E s \in Batches : SetSongs(s)
  \/ \E s \in futures : SetSongsFinished(s)
  \/ \E q \in Selections(Len(data_)) : Increasing(q) /\ SelectionChanged(q)
  \/ \E id \in EditedKeys : \E v \in EditorValues(id) : FieldValueEdited(id, v)
  \/ \E id \in EditedKeys : ResetField(id)
  \/ FetchTag
  \/ \E f \in results_songs : FetchTagSongChosen(f, NewMetadata(f))
  \/ accept
  \/ \E reply \in replies : \E success \in BOOLEAN :
       SongSaveComplete(reply, success)
  \/ ButtonClicked

vars == <<dialogVars, loadLog, commitLog, probeVars, serviceVars>>

\* The dialog, opened, edited and committed any number of times.
Spec == Init /\ [][Next]_vars

\* ------------------------------------------------------------ field runs
\* The editing of one field of a loaded batch, for each of the 14 fields and
\* for editor values of every type: the handlers of the editors applied to
\* the entries, with the busy flag clear and the dialog shown.

\* The number of songs of the batch edited in a field run.
ProbeSongs == 2

ProbeBatch == [i \in 1..ProbeSongs |-> CallerSong(i)]
ProbeLoaded == LoadData(ProbeBatch)

\* What an editor can hold.
ProbeValues ==
  {QStr("B"), QStr("2"), QInt(2), QInt(0), QBool(TRUE), QBool(FALSE)}

\* What the tag fetcher found, in a field run.
ProbeMetadata ==
  [title |-> "B", artist |-> "Q", album |-> "Z", track |-> 2, year |-> 2000]

\* The state after SetSongsFinished: the batch is loaded, all rows selected.
ProbeInit ==
  /\ DialogInit
  /\ pfield \in FieldKeys
  /\ pdata = ProbeLoaded
  /\ psel = AllRows(Len(ProbeLoaded))
  /\ plast = NoOp

\* EditTagDialog::SelectionChanged in a field run.
ProbeSelectionChanged(q) ==
  /\ psel' = q
  /\ plast' = NoOp
  /\ UNCHANGED <<pfield, pdata>>
  /\ UNCHANGED <<dialogVars, loadLog, commitLog, reset_requests, alive,
                 serviceVars>>

\* EditTagDialog::FieldValueEdited in a field run: the editor of pfield now
\* holds v.
ProbeFieldValueEdited(v) ==
  /\ psel # <<>>
  /\ pdata' = UpdateFieldValue(pdata, pfield, psel, v)
  /\ plast' = [op |-> "set", v |-> v]
  /\ UNCHANGED <<pfield, psel>>
  /\ UNCHANGED <<dialogVars, loadLog, commitLog, reset_requests, alive,
                 serviceVars>>

\* EditTagDialog::ResetField in a field run.
ProbeResetField ==
  /\ psel # <<>>
  /\ pdata' = ResetFieldValue(pdata, pfield, psel)
  /\ plast' = [op |-> "reset", v |-> Invalid]
  /\ UNCHANGED <<pfield, psel>>
  /\ UNCHANGED <<dialogVars, loadLog, commitLog, reset_requests, alive,
                 serviceVars>>

\* EditTagDialog::FetchTagSongChosen in a field run.
ProbeFetchTagSongChosen(f) ==
  /\ pdata' = ApplyFetchedTags(pdata, f, ProbeMetadata)
  /\ plast' = [op |-> "fetch", v |-> Invalid]
  /\ UNCHANGED <<pfield, psel>>
  /\ UNCHANGED <<dialogVars, loadLog, commitLog, reset_requests, alive,
                 serviceVars>>

ProbeNext ==
  \/ \E q \in Selections(Len(pdata)) : ProbeSelectionChanged(q)
  \/ \E v \in ProbeValues : ProbeFieldValueEdited(v)
  \/ ProbeResetField
  \/ \E f \in 1..ProbeSongs : ProbeFetchTagSongChosen(f)

\* The editing of one field of a loaded batch.
SpecField == ProbeInit /\ [][ProbeNext]_vars

\* The editing and resetting of one field, without fetched tags, the rows
\* being selected in row order.
FrameNext ==
  \/ \E q \in Selections(Len(pdata)) : Increasing(q) /\ ProbeSelectionChanged(q)
  \/ \E v \in ProbeValues : ProbeFieldValueEdited(v)
  \/ ProbeResetField
SpecFrame == ProbeInit /\ [][FrameNext]_vars

\* ---------------------------------------------------------- refresh runs
\* The editors refreshed by the program: every editor that is cleared or
\* given a value raises its changed signal, whose slot is FieldValueEdited.

\* fields_: the editors of the dialog, in the order they are gone through.
fields_ == <<"title", "artist", "album", "albumartist", "composer",
             "performer", "grouping", "genre", "comment", "lyrics",
             "track", "disc", "year", "compilation">>

\* ExtendedEditor::clear, the value the editor holds afterwards.
ClearedValue(id) ==
  IF id \in IntKeys THEN QInt(0)
  ELSE IF id \in BoolKeys THEN QBool(FALSE)
  ELSE QStr("")

\* A plausible slip in FieldValueEdited: ignore_edits_ is not tested.
DropsEditNever(ignore_edits) == FALSE

\* EditTagDialog::FieldValueEdited, its first test: if (ignore_edits_) return.
DropsEdit(ignore_edits) == ignore_edits

\* EditTagDialog::FieldValueEdited as the slot of the changed signal of the
\* editor of field id, which holds v: the entries after it.
EditorChanged(data, id, rows, v, ignore_edits) ==
  IF DropsEdit(ignore_edits) \/ rows = <<>> THEN data
  ELSE UpdateFieldValue(data, id, rows, v)

\* EditTagDialog::InitFieldValue, the entries after it: the editor is
\* cleared and, if the value does not vary, given the first selected song's
\* current value; each of the two raises the editor's changed signal.
InitFieldValue(data, rows, id, ignore_edits) ==
  LET varies == DoesValueVary(data, rows, id)
      cleared == EditorChanged(data, id, rows, ClearedValue(id), ignore_edits)
  IN IF varies THEN cleared
     ELSE EditorChanged(cleared, id, rows,
                        current_value(cleared[rows[1]], id), ignore_edits)

\* EditTagDialog::UpdateUI, the entries after it: ignore_edits_ is set while
\* every field's editor is initialised, the first of the fields and then,
\* on the entries it left, the others.
RECURSIVE InitFieldValues(_, _, _)
InitFieldValues(data, rows, fields) ==
  IF fields = <<>> THEN data
  ELSE LET after == {InitFieldValue(data, rows, Head(fields), TRUE)}
       IN CHOOSE result \in
            {InitFieldValues(d, rows, Tail(fields)) : d \in after} : TRUE
UpdateUI(data, rows) == InitFieldValues(data, rows, fields_)

\* EditTagDialog::SelectionChanged in a refresh run: nothing for an empty
\* selection, otherwise the editors are updated.
RefreshSelectionChanged(q) ==
  /\ psel' = q
  /\ pdata' = IF q = <<>> THEN pdata ELSE UpdateUI(pdata, q)
  /\ plast' = [op |-> "select", v |-> Invalid]
  /\ UNCHANGED <<pfield, reset_requests, alive>>
  /\ UNCHANGED <<dialogVars, loadLog, commitLog, serviceVars>>

\* EditTagDialog::ResetField in a refresh run: ignore_edits_ is set while
\* the selected songs are reset and the editor is initialised again.
RefreshResetField ==
  /\ psel # <<>>
  /\ pdata' = InitFieldValue(ResetFieldValue(pdata, pfield, psel), psel,
                             pfield, TRUE)
  /\ plast' = [op |-> "reset", v |-> Invalid]
  /\ UNCHANGED <<pfield, psel, reset_requests, alive>>
  /\ UNCHANGED <<dialogVars, loadLog, commitLog, serviceVars>>

\* EditTagDialog::FetchTagSongChosen in a refresh run: the editors are
\* updated if the song's row is the current row of the list.
RefreshFetchTagSongChosen(f, current) ==
  /\ LET fetched == ApplyFetchedTags(pdata, f, ProbeMetadata)
     IN pdata' = IF current /\ FindRow(pdata, f) # 0 /\ psel # <<>>
                 THEN UpdateUI(fetched, psel) ELSE fetched
  /\ plast' = [op |-> "fetch", v |-> QInt(f)]
  /\ UNCHANGED <<pfield, psel, reset_requests, alive>>
  /\ UNCHANGED <<dialogVars, loadLog, commitLog, serviceVars>>

RefreshNext ==
  \/ \E q \in Selections(Len(pdata)) : RefreshSelectionChanged(q)
  \/ \E v \in EditorValues(pfield) : ProbeFieldValueEdited(v)
  \/ RefreshResetField
  \/ \E f \in 1..ProbeSongs : \E current \in BOOLEAN :
        RefreshFetchTagSongChosen(f, current)

\* The editors refreshed while the user selects, edits, resets and fetches.
SpecRefresh == ProbeInit /\ [][RefreshNext]_vars

\* Ids that are none of the 14: of another property of a song, and of a
\* field in another spelling (the ids are compared as they are spelled).
UnknownKeys == {"bitrate", "Title"}

\* The state after SetSongsFinished, the editor used being one whose id is
\* none of the 14.
UnknownKeyInit ==
  /\ DialogInit
  /\ pfield \in UnknownKeys
  /\ pdata = ProbeLoaded
  /\ psel = AllRows(Len(ProbeLoaded))
  /\ plast = NoOp

\* The handlers of the editors applied with an id that is none of the 14.
SpecUnknownKey == UnknownKeyInit /\ [][ProbeNext]_vars

\* ------------------------------------------------------------ cover runs
\* The assignment of album covers to the songs of a loaded batch: the cover
\* slots applied to the entries, with the busy flag clear.

\* The number of songs of the batch in a cover run.
CoverSongs == 2

\* What the songs of a cover run can be: of one of two albums, of one of two
\* album artists, in the collection or not.
CoverAlbums == {"X", "W"}
CoverAlbumArtists == {"Y", "V"}
CoverSong(f, album, albumartist, tracked) ==
  [CallerSong(f) EXCEPT !.album = album, !.albumartist = albumartist,
                        !.id = IF tracked THEN f ELSE NoId,
                        !.collection = tracked]
CoverBatches ==
  {[i \in 1..CoverSongs |->
      CoverSong(i, kind[i][1], kind[i][2], kind[i][3])] :
     kind \in [1..CoverSongs ->
                CoverAlbums \X CoverAlbumArtists \X BOOLEAN]}

\* The urls a cover can be assigned from.
CoverUrls == {"http://img/x.jpg", "http://img/w.jpg"}
\* Song::kManuallyUnsetCover: the manual cover of a song whose cover was unset.
kManuallyUnsetCover == "(unset)"

\* Song::effective_albumartist.
effective_albumartist(song) == song.albumartist

\* AlbumCoverChoiceController::LoadCoverFromFile, LoadCoverFromURL,
\* SearchForCover, UnsetCover, for the song they are handed (the original
\* record of the first selected entry): the cover is assigned to that song.
ControllerSetsCover(data, row, cover_url) ==
  [data EXCEPT ![row].original_.art_manual = cover_url]

\* A plausible slip in UpdateCoverOf: the album is not compared.
UpdateCoverOfSameArtist(data, rows, cover_url) ==
  LET first == rows[1]
      selected == data[first].original_
  IN IF ~selected.valid \/ selected.id = NoId THEN data
     ELSE [i \in DOMAIN data |->
             LET other_song == data[i].original_
                 art == IF /\ i # first
                           /\ effective_albumartist(selected)
                                = effective_albumartist(other_song)
                        THEN cover_url ELSE other_song.art_manual
             IN [original_ |-> [other_song EXCEPT !.art_manual = art],
                 current_ |-> [data[i].current_ EXCEPT !.art_manual = art]]]

\* EditTagDialog::UpdateCoverOf: nothing for a song that is not valid or not
\* in the collection; otherwise the cover is assigned to the original record
\* of every other entry of the same album artist and album, and every
\* entry's current cover is set to its original cover.
UpdateCoverOf(data, rows, cover_url) ==
  LET first == rows[1]
      selected == data[first].original_
  IN IF ~selected.valid \/ selected.id = NoId THEN data
     ELSE [i \in DOMAIN data |->
             LET other_song == data[i].original_
                 art == IF /\ i # first
                           /\ effective_albumartist(selected)
                                = effective_albumartist(other_song)
                           /\ selected.album = other_song.album
                        THEN cover_url ELSE other_song.art_manual
             IN [original_ |-> [other_song EXCEPT !.art_manual = art],
                 current_ |-> [data[i].current_ EXCEPT !.art_manual = art]]]

\* The state after SetSongsFinished: the batch is loaded, all rows selected.
CoverInit ==
  /\ DialogInit
  /\ pfield = "title"
  /\ \E batch \in CoverBatches : pdata = LoadData(batch)
  /\ psel = AllRows(CoverSongs)
  /\ plast = NoOp

\* EditTagDialog::SelectionChanged in a cover run: the user selects one row
\* (the cover slots use the first selected row only).
CoverSelectionChanged(q) ==
  /\ psel' = q
  /\ plast' = NoOp
  /\ UNCHANGED <<pfield, pdata>>
  /\ UNCHANGED <<dialogVars, loadLog, commitLog, reset_requests, alive,
                 serviceVars>>

\* EditTagDialog::LoadCoverFromFile, LoadCoverFromURL, SearchForCover: the
\* controller assigns the chosen cover to the first selected song and returns
\* its url, or returns an empty url when the user cancels.
LoadCoverFromURL(cover_url) ==
  /\ psel # <<>>
  /\ pdata' = IF cover_url = "" THEN pdata
              ELSE UpdateCoverOf(ControllerSetsCover(pdata, psel[1], cover_url),
                                 psel, cover_url)
  /\ plast' = IF cover_url = "" THEN NoOp
              ELSE [op |-> "cover", v |-> QStr(cover_url)]
  /\ UNCHANGED <<pfield, psel>>
  /\ UNCHANGED <<dialogVars, loadLog, commitLog, reset_requests, alive,
                 serviceVars>>

\* EditTagDialog::UnsetCover.
UnsetCover ==
  /\ psel # <<>>
  /\ pdata' = UpdateCoverOf(
                ControllerSetsCover(pdata, psel[1], kManuallyUnsetCover),
                psel, kManuallyUnsetCover)
  /\ plast' = [op |-> "cover", v |-> QStr(kManuallyUnsetCover)]
  /\ UNCHANGED <<pfield, psel>>
  /\ UNCHANGED <<dialogVars, loadLog, commitLog, reset_requests, alive,
                 serviceVars>>

CoverNext ==
  \/ \E row \in DOMAIN pdata : CoverSelectionChanged(<<row>>)
  \/ \E cover_url \in CoverUrls \cup {""} : LoadCoverFromURL(cover_url)
  \/ UnsetCover

\* The assignment of covers to the songs of a loaded batch.
SpecCover == CoverInit /\ [][CoverNext]_vars

\* ------------------------------------------------------- cover slot runs
\* The slots of the cover menu and the drop on the cover, with a selection
\* of one row or of none.  Once a null song or an empty list has been
\* accessed (fault) the run is over.

\* EditTagDialog::GetFirstSelected: the row of the first selected song (its
\* original record is handed out), 0 for nullptr when nothing is selected.
GetFirstSelected(rows) == IF rows = <<>> THEN 0 ELSE rows[1]

\* The slots that assign a cover chosen by the user, and those that only
\* show or save the cover.
AssigningSlots == {"LoadCoverFromFile", "LoadCoverFromURL", "SearchForCover"}
ShowingSlots == {"ShowCover", "SaveCoverToFile"}

\* EditTagDialog::SelectionChanged in a cover slot run.
SlotSelectionChanged(q) ==
  /\ ~fault
  /\ psel' = q
  /\ plast' = NoOp
  /\ UNCHANGED <<pfield, pdata, reset_requests, alive>>
  /\ UNCHANGED <<dialogVars, loadLog, commitLog, serviceVars>>

\* EditTagDialog::LoadCoverFromFile, LoadCoverFromURL, SearchForCover:
\* nothing without a first selected song; otherwise the controller assigns
\* the chosen cover (an empty url: the user cancelled).
SlotLoadCover(slot, cover_url) ==
  /\ ~fault
  /\ LET song == GetFirstSelected(psel)
     IN pdata' = IF song = 0 \/ cover_url = "" THEN pdata
                 ELSE UpdateCoverOf(ControllerSetsCover(pdata, song, cover_url),
                                    psel, cover_url)
  /\ plast' = [op |-> slot, v |-> QStr(cover_url)]
  /\ UNCHANGED <<pfield, psel, reset_requests, alive>>
  /\ UNCHANGED <<dialogVars, loadLog, commitLog, serviceVars>>

\* EditTagDialog::UnsetCover: nothing without a first selected song.
SlotUnsetCover ==
  /\ ~fault
  /\ LET song == GetFirstSelected(psel)
     IN pdata' = IF song = 0 THEN pdata
                 ELSE UpdateCoverOf(
                        ControllerSetsCover(pdata, song, kManuallyUnsetCover),
                        psel, kManuallyUnsetCover)
  /\ plast' = [op |-> "UnsetCover", v |-> QStr(kManuallyUnsetCover)]
  /\ UNCHANGED <<pfield, psel, reset_requests, alive>>
  /\ UNCHANGED <<dialogVars, loadLog, commitLog, serviceVars>>

\* EditTagDialog::ShowCover, SaveCoverToFile: nothing without a first
\* selected song; otherwise the controller shows or saves the cover.
SlotShowCover(slot) ==
  /\ ~fault
  /\ plast' = [op |-> slot, v |-> Invalid]
  /\ UNCHANGED <<pfield, pdata, psel, reset_requests, alive>>
  /\ UNCHANGED <<dialogVars, loadLog, commitLog, serviceVars>>

\* What the entries can be after UpdateCoverOf was handed the song behind a
\* null pointer and took the first element of an empty list: as they were
\* (the access ended the program) or with the cover in every entry (the
\* reads gave a song that passed the tests).
AfterNullSong(data, cover_url) ==
  {data,
   [i \in DOMAIN data |->
      [original_ |-> [data[i].original_ EXCEPT !.art_manual = cover_url],
       current_ |-> [data[i].current_ EXCEPT !.art_manual = cover_url]]]}

\* EditTagDialog::eventFilter, QEvent::Drop on the cover: the first selected
\* song is handed to the controller without a test; if the controller
\* returns a url, UpdateCoverOf is called with *song and the selection.
Drop(cover_url) ==
  /\ ~fault
  /\ LET song == GetFirstSelected(psel)
     IN IF song # 0
        THEN /\ pdata' = IF cover_url = "" THEN pdata
                         ELSE UpdateCoverOf(
                                ControllerSetsCover(pdata, song, cover_url),
                                psel, cover_url)
             /\ fault' = fault
        ELSE IF cover_url = ""
        THEN pdata' = pdata /\ fault' = fault
        ELSE /\ pdata' \in AfterNullSong(pdata, cover_url)
             /\ fault' = TRUE
  /\ plast' = [op |-> "Drop", v |-> QStr(cover_url)]
  /\ UNCHANGED <<pfield, psel, reset_requests, alive>>
  /\ UNCHANGED <<cover_art_id_, ui_art, image_original, loads, loader_id>>
  /\ UNCHANGED <<dialogVars, loadLog, commitLog, tidalVars, listVars>>

\* The state after SetSongsFinished: two songs of the collection are loaded
\* and all rows selected.
SlotInit ==
  /\ DialogInit
  /\ pfield = "title"
  /\ pdata = ProbeLoaded
  /\ psel = AllRows(Len(ProbeLoaded))
  /\ plast = NoOp

SlotNext ==
  \/ \E row \in DOMAIN pdata : SlotSelectionChanged(<<row>>)
  \/ SlotSelectionChanged(<<>>)
  \/ \E slot \in AssigningSlots : \E cover_url \in CoverUrls \cup {""} :
        SlotLoadCover(slot, cover_url)
  \/ SlotUnsetCover
  \/ \E slot \in ShowingSlots : SlotShowCover(slot)
  \/ \E cover_url \in CoverUrls \cup {""} : Drop(cover_url)

\* The cover slots and the drop, with one row selected or none.
SpecCoverSlots == SlotInit /\ [][SlotNext]_vars

\* ------------------------------------------------------- statistics runs
\* The reset of the statistics of the songs of a loaded batch.

\* The largest number of reset requests sent to the collection in a run.
MaxResets == 2

\* The batches of a statistics run: songs in the collection or not, with the
\* play counts the caller's objects carry.
StatsBatches ==
  {[i \in 1..CoverSongs |-> CoverSong(i, "X", "Y", tracked[i])] :
     tracked \in [1..CoverSongs -> BOOLEAN]}

\* The answers to the "Reset play counts" question.
Answers == {"Reset", "Cancel"}

\* A plausible slip in ResetPlayCounts: the id of the song is not tested.
ResetsStatisticsOfValid(song) == song.valid

\* EditTagDialog::ResetPlayCounts, its test of the song: valid and with an id.
ResetsStatistics(song) == song.valid /\ song.id # NoId

\* The state after SetSongsFinished: the batch is loaded, all rows selected.
StatsInit ==
  /\ DialogInit
  /\ pfield = "title"
  /\ \E batch \in StatsBatches : pdata = LoadData(batch)
  /\ psel = AllRows(CoverSongs)
  /\ plast = NoOp

\* EditTagDialog::SelectionChanged in a statistics run: one row is selected,
\* or none.
StatsSelectionChanged(q) ==
  /\ psel' = q
  /\ plast' = NoOp
  /\ UNCHANGED <<pfield, pdata>>
  /\ UNCHANGED <<dialogVars, loadLog, commitLog, reset_requests, alive,
                 serviceVars>>

\* EditTagDialog::ResetPlayCounts, with the user's answer to its question.
ResetPlayCounts(answer) ==
  /\ plast' = [op |-> "stats", v |-> QStr(answer)]
  /\ IF psel = <<>> THEN UNCHANGED <<pdata, reset_requests>>
     ELSE LET row == psel[1]
              song == pdata[row].original_
          IN IF ~ResetsStatistics(song) \/ answer # "Reset"
             THEN UNCHANGED <<pdata, reset_requests>>
             ELSE /\ song.collection => Len(reset_requests) < MaxResets
                  /\ pdata' = [pdata EXCEPT
                                 ![row].original_.playcount = 0,
                                 ![row].original_.skipcount = 0,
                                 ![row].original_.lastplayed = NeverPlayed]
                  /\ reset_requests' =
                       IF song.collection
                       THEN Append(reset_requests, song.id)
                       ELSE reset_requests
  /\ UNCHANGED <<pfield, psel>>
  /\ UNCHANGED <<dialogVars, loadLog, commitLog, alive, serviceVars>>

StatsNext ==
  \/ \E row \in DOMAIN pdata : StatsSelectionChanged(<<row>>)
  \/ StatsSelectionChanged(<<>>)
  \/ \E answer \in Answers : ResetPlayCounts(answer)

\* The reset of the statistics of the songs of a loaded batch.
SpecStats == StatsInit /\ [][StatsNext]_vars

\* --------------------------------------------- statistics and commit runs
\* The statistics of songs of the collection reset in the dialog, their
\* fields edited, and the batch committed.

\* EditTagDialog::ResetPlayCounts, the song after set_playcount(0),
\* set_skipcount(0), set_lastplayed(-1).
PlayCountsReset(song) ==
  [song EXCEPT !.playcount = 0, !.skipcount = 0, !.lastplayed = NeverPlayed]

\* The state after SetSongsFinished for two songs of the collection: the
\* batch is loaded and shown, all rows selected.
StatsCommitInit ==
  /\ loading_ = FALSE
  /\ ui_ = SetLoadingUi("")
  /\ shown = TRUE
  /\ data_ = ProbeLoaded
  /\ sel = AllRows(Len(ProbeLoaded))
  /\ pending_ = 0
  /\ futures = {}
  /\ replies = {}
  /\ results_songs = {}
  /\ loaded_request = ProbeBatch
  /\ latest_request = <<>>
  /\ superseded = FALSE
  /\ committed = FALSE
  /\ issued = <<>>
  /\ outcome = {}
  /\ errors = {}
  /\ upserts = EmptyBag
  /\ accepted = 0
  /\ reset_requests = <<>>
  /\ alive = TRUE
  /\ ArtInit
  /\ TidalIdle
  /\ current_row = 0
  /\ service_ = [present |-> TRUE, authenticated |-> TRUE]
  /\ pfield = "title"
  /\ pdata = <<>>
  /\ psel = <<>>
  /\ plast = NoOp

\* EditTagDialog::ResetPlayCounts on the entries of the dialog, with the
\* user's answer to its question.
DialogResetPlayCounts(answer) ==
  /\ shown /\ ui_.tab_widget
  /\ IF sel = <<>> THEN UNCHANGED <<data_, reset_requests>>
     ELSE LET row == sel[1]
              song == data_[row].original_
          IN IF ~ResetsStatistics(song) \/ answer # "Reset"
             THEN UNCHANGED <<data_, reset_requests>>
             ELSE /\ song.collection => Len(reset_requests) < MaxResets
                  /\ data_' = [data_ EXCEPT
                                 ![row].original_ = PlayCountsReset(song)]
                  /\ reset_requests' =
                       IF song.collection
                       THEN Append(reset_requests, song.id)
                       ELSE reset_requests
  /\ UNCHANGED <<loading_, ui_, shown, sel, pending_, futures, replies,
                 results_songs>>
  /\ UNCHANGED <<loadLog, commitLog, serviceVars>>
  /\ UNCHANGED <<pfield, pdata, psel, plast, alive>>

StatsCommitNext ==
  \/ \E row \in DOMAIN data_ : SelectionChanged(<<row>>)
  \/ \E answer \in Answers : DialogResetPlayCounts(answer)
  \/ \E id \in EditedKeys : \E v \in EditorValues(id) : FieldValueEdited(id, v)
  \/ accept
  \/ \E reply \in replies : \E success \in BOOLEAN :
        SongSaveComplete(reply, success)

\* The statistics reset, fields edited and the batch committed.
SpecStatsCommit == StatsCommitInit /\ [][StatsCommitNext]_vars

\* ------------------------------------------------------- song list runs
\* The user goes through the song list with the next and previous buttons.

\* The largest number of rows of the song list.
MaxRows == 3

\* The % of C++ on int: the quotient is truncated towards zero, so the
\* remainder has the sign of the dividend.
Rem(a, b) == IF a >= 0 THEN a % b ELSE 0 - ((0 - a) % b)

\* QListWidget::setCurrentRow: the row becomes the current row; a row that
\* is not in the list leaves the list without current row.
setCurrentRow(row, count) == IF row \in 0..(count - 1) THEN row ELSE -1

\* The rows selected once setCurrentRow has run: the current row alone.
SelectedWith(row) == IF row = -1 THEN <<>> ELSE <<row + 1>>

\* A plausible slip in PreviousSong: the count is not added before the %.
PreviousRowWithoutCount(current, count) == Rem(current - 1, count)

\* EditTagDialog::NextSong and PreviousSong, the row they compute.
NextRow(current, count) == Rem(current + 1, count)
PreviousRow(current, count) == Rem(current - 1 + count, count)

\* EditTagDialog::NextSong.
NextSong ==
  /\ IF Len(data_) = 0
     THEN UNCHANGED <<sel, current_row>>
     ELSE LET row == setCurrentRow(NextRow(current_row, Len(data_)),
                                   Len(data_))
          IN current_row' = row /\ sel' = SelectedWith(row)
  /\ plast' = [op |-> "NextSong", v |-> QInt(current_row)]
  /\ UNCHANGED <<loading_, ui_, shown, data_, pending_, futures, replies,
                 results_songs>>
  /\ UNCHANGED <<loadLog, commitLog, pfield, pdata, psel, reset_requests,
                 alive, artVars, tidalVars>>

\* EditTagDialog::PreviousSong.
PreviousSong ==
  /\ IF Len(data_) = 0
     THEN UNCHANGED <<sel, current_row>>
     ELSE LET row == setCurrentRow(PreviousRow(current_row, Len(data_)),
                                   Len(data_))
          IN current_row' = row /\ sel' = SelectedWith(row)
  /\ plast' = [op |-> "PreviousSong", v |-> QInt(current_row)]
  /\ UNCHANGED <<loading_, ui_, shown, data_, pending_, futures, replies,
                 results_songs>>
  /\ UNCHANGED <<loadLog, commitLog, pfield, pdata, psel, reset_requests,
                 alive, artVars, tidalVars>>

\* The user clicks a row of the song list: it becomes the current row and
\* the only selected one.
RowClicked(row) ==
  /\ shown /\ ui_.song_list
  /\ row \in 0..(Len(data_) - 1)
  /\ current_row' = row
  /\ sel' = SelectedWith(row)
  /\ plast' = [op |-> "click", v |-> QInt(row)]
  /\ UNCHANGED <<loading_, ui_, shown, data_, pending_, futures, replies,
                 results_songs>>
  /\ UNCHANGED <<loadLog, commitLog, pfield, pdata, psel, reset_requests,
                 alive, artVars, tidalVars>>

\* The state after SetSongsFinished for a batch of count songs, with any row
\* of the list current, or none.
ListInit ==
  \E count \in 0..MaxRows :
     /\ loading_ = FALSE
     /\ ui_ = IF count = 0
              THEN [SetLoadingUi("") EXCEPT !.song_list = FALSE,
                                            !.tab_widget = FALSE]
              ELSE SetLoadingUi("")
     /\ shown = TRUE
     /\ data_ = [i \in 1..count |-> Data(CallerSong(1))]
     /\ current_row \in -1..(count - 1)
     /\ sel = SelectedWith(current_row)
     /\ pending_ = 0
     /\ futures = {}
     /\ replies = {}
     /\ results_songs = {}
     /\ loaded_request = [i \in 1..count |-> CallerSong(1)]
     /\ latest_request = <<>>
     /\ superseded = FALSE
     /\ committed = FALSE
     /\ issued = <<>>
     /\ outcome = {}
     /\ errors = {}
     /\ upserts = EmptyBag
     /\ accepted = 0
     /\ reset_requests = <<>>
     /\ alive = TRUE
     /\ ArtInit
     /\ TidalIdle
     /\ service_ = [present |-> TRUE, authenticated |-> TRUE]
     /\ pfield = "title"
     /\ pdata = <<>>
     /\ psel = <<>>
     /\ plast = NoOp

ListNext ==
  \/ NextSong
  \/ PreviousSong
  \/ \E row \in 0..(MaxRows - 1) : RowClicked(row)
  \/ \E id \in EditedKeys : \E v \in EditorValues(id) : FieldValueEdited(id, v)

\* The buttons pressed in any order, rows clicked and fields edited.
SpecSongList == ListInit /\ [][ListNext]_vars

\* -------------------------------------------------------- teardown runs
\* The dialog destroyed while a load or writes are outstanding.  After the
\* destructor the variables of the dialog stand for the memory it occupied.

\* A plausible slip in SaveData: the connection is made without the dialog
\* as its context object, so the completion runs whatever became of it.
ConnectionDeliversAlways(receiver_alive) == TRUE

\* QObject::connect(reply, &TagReaderReply::Finished, this, [...]) in
\* SaveData: the dialog is the context object of the connection, which Qt
\* removes when the dialog is destroyed.
ConnectionDelivers(receiver_alive) == receiver_alive

\* NewClosure(future, this, SLOT(SetSongsFinished(...)), future) in SetSongs:
\* the slot of the receiver is invoked if the receiver still exists.
ClosureInvokes(receiver_alive) == receiver_alive

\* EditTagDialog::~EditTagDialog: ui_ is deleted; nothing is cancelled.
Destroy ==
  /\ alive
  /\ alive' = FALSE
  /\ ui_' = [ui_ EXCEPT !.loading_label = ""]
  /\ shown' = FALSE
  /\ UNCHANGED <<loading_, data_, sel, pending_, futures, replies,
                 results_songs>>
  /\ UNCHANGED <<loadLog, commitLog>>
  /\ UNCHANGED <<pfield, pdata, psel, plast, reset_requests, serviceVars>>

\* The background load of batch s finishes: the closure made by SetSongs
\* invokes SetSongsFinished, or drops the result.
FutureFinished(s) ==
  /\ s \in futures
  /\ IF ClosureInvokes(alive) THEN SetSongsFinished(s)
     ELSE /\ futures' = futures \ {s}
          /\ UNCHANGED <<loading_, ui_, shown, data_, sel, pending_, replies,
                         results_songs>>
          /\ UNCHANGED <<loadLog, commitLog, probeVars, serviceVars>>

\* A write finishes (TagReaderReply::Finished): the connection made by
\* SaveData runs SongSaveComplete, or is gone.
ReplyFinished(reply, success) ==
  /\ reply \in replies
  /\ IF ConnectionDelivers(alive) THEN SongSaveComplete(reply, success)
     ELSE /\ replies' = replies \ {reply}
          /\ UNCHANGED <<loading_, ui_, shown, data_, sel, pending_, futures,
                         results_songs>>
          /\ UNCHANGED <<loadLog, commitLog, probeVars, serviceVars>>

TeardownNext ==
  \/ alive /\ \E s \in Batches : SetSongs(s)
  \/ \E s \in futures : FutureFinished(s)
  \/ alive /\ \E id \in EditedKeys : \E v \in EditorValues(id) :
                 FieldValueEdited(id, v)
  \/ alive /\ accept
  \/ \E reply \in replies : \E success \in BOOLEAN :
        ReplyFinished(reply, success)
  \/ Destroy

\* The dialog opened, edited, committed, and destroyed at any moment.
SpecTeardown == Init /\ [][TeardownNext]_vars

\* -------------------------------------------------------------- art runs
\* The cover shown on the summary tab: the dialog asks the application's
\* cover loader for the cover of the selected song; the loader answers every
\* request, of the dialog or of another part of the player, with the signal
\* AlbumCoverLoaded, which the dialog receives.

\* The largest number of requests handed to the cover loader in a run.
MaxLoads == 3

\* The image of a song's cover: that of its manual cover if it has one.
CoverImage(song) == [url |-> song.url, art_manual |-> song.art_manual]
\* The image of a song of another part of the player.
OtherImage == [url |-> 0, art_manual |-> ""]

\* AlbumCoverLoader::LoadImageAsync: the request is queued and gets the next
\* id, which is returned.
LoadImageAsync(image, by) ==
  /\ loader_id < MaxLoads
  /\ loader_id' = loader_id + 1
  /\ loads' = loads \cup {[id |-> loader_id + 1, image |-> image, by |-> by,
                           done |-> FALSE]}

\* EditTagDialog::UpdateSummaryTab, the cover: the song's cover is requested
\* and the id of the request kept.
UpdateSummaryTab(song) ==
  /\ LoadImageAsync(CoverImage(song), "dialog")
  /\ cover_art_id_' = loader_id + 1

\* A plausible slip in AlbumCoverLoaded: the id is not compared.
AppliesCoverAlways(id, cover_art_id) == TRUE

\* EditTagDialog::AlbumCoverLoaded, its test of the id.
AppliesCover(id, cover_art_id) == id = cover_art_id

\* The state after SetSongsFinished: two songs of the collection are loaded
\* and all rows selected (so no cover has been requested).
ArtRunInit ==
  /\ DialogInit
  /\ pfield = "title"
  /\ pdata = ProbeLoaded
  /\ psel = AllRows(Len(ProbeLoaded))
  /\ plast = NoOp

\* EditTagDialog::SelectionChanged in an art run: for a selection of one row
\* the summary tab is updated with that row's original song.
ArtSelectionChanged(q) ==
  /\ psel' = q
  /\ plast' = NoOp
  /\ IF Len(q) = 1
     THEN UpdateSummaryTab(pdata[q[1]].original_)
     ELSE UNCHANGED <<cover_art_id_, loads, loader_id>>
  /\ UNCHANGED <<pfield, pdata, reset_requests, alive>>
  /\ UNCHANGED <<ui_art, image_original, fault>>
  /\ UNCHANGED <<dialogVars, loadLog, commitLog, tidalVars, listVars>>

\* EditTagDialog::LoadCoverFromURL in an art run: the controller assigns the
\* cover, UpdateCoverOf updates the summary tab and the entries.
ArtLoadCoverFromURL(cover_url) ==
  /\ psel # <<>>
  /\ LET assigned == ControllerSetsCover(pdata, psel[1], cover_url)
         selected == assigned[psel[1]].original_
     IN /\ pdata' = UpdateCoverOf(assigned, psel, cover_url)
        /\ IF ~selected.valid \/ selected.id = NoId
           THEN UNCHANGED <<cover_art_id_, loads, loader_id>>
           ELSE UpdateSummaryTab(selected)
  /\ plast' = [op |-> "cover", v |-> QStr(cover_url)]
  /\ UNCHANGED <<pfield, psel, reset_requests, alive>>
  /\ UNCHANGED <<ui_art, image_original, fault>>
  /\ UNCHANGED <<dialogVars, loadLog, commitLog, tidalVars, listVars>>

\* Another part of the player asks the same loader for a cover.
OtherLoadImageAsync ==
  /\ LoadImageAsync(OtherImage, "other")
  /\ UNCHANGED <<cover_art_id_, ui_art, image_original, fault>>
  /\ UNCHANGED <<dialogVars, loadLog, commitLog, probeVars, tidalVars, listVars>>

\* AlbumCoverLoader::AlbumCoverLoaded -> EditTagDialog::AlbumCoverLoaded: the
\* loader has loaded the cover of request l.
AlbumCoverLoaded(l) ==
  /\ l \in loads /\ ~l.done
  /\ loads' = (loads \ {l}) \cup {[l EXCEPT !.done = TRUE]}
  /\ IF AppliesCover(l.id, cover_art_id_)
     THEN /\ ui_art' = l.image
          /\ image_original' = l.image
     ELSE UNCHANGED <<ui_art, image_original>>
  /\ UNCHANGED <<cover_art_id_, loader_id, fault>>
  /\ UNCHANGED <<dialogVars, loadLog, commitLog, probeVars, tidalVars, listVars>>

ArtNext ==
  \/ \E row \in DOMAIN pdata : ArtSelectionChanged(<<row>>)
  \/ ArtSelectionChanged(AllRows(Len(pdata)))
  \/ \E cover_url \in CoverUrls : ArtLoadCoverFromURL(cover_url)
  \/ OtherLoadImageAsync
  \/ \E l \in loads : AlbumCoverLoaded(l)

\* The covers requested and loaded while the user goes through the songs.
SpecArt == ArtRunInit /\ [][ArtNext]_vars

\* ------------------------------------------------- the Tidal cover provider
\* TidalCoverProvider: the searches it sends to the Tidal API, the replies it
\* keeps in replies_, and the SearchFinished signals it emits.

\* The largest number of searches sent in a run.
MaxSearches == 2

\* kLimit: the number of items a search asks for.
kLimit == 10

\* JSON values (QJsonValue): an object is a function from its keys.
JNull == [t |-> "null"]
JStr(s) == [t |-> "string", s |-> s]
JNum(n) == [t |-> "number", n |-> n]
JArr(a) == [t |-> "array", a |-> a]
JObj(f) == [t |-> "object", f |-> f]
\* A QByteArray that is not JSON, and the empty QByteArray.
NotJson == [t |-> "text"]
NoData == [t |-> "empty"]

\* QJsonValue::isObject, QJsonObject::contains, QJsonValue::toString, toInt.
isObject(j) == j.t = "object"
contains(j, key) == key \in DOMAIN j.f
jsonToString(j) == IF j.t = "string" THEN j.s ELSE ""
jsonToInt(j) == IF j.t = "number" THEN j.n ELSE 0

\* QNetworkReply::NoError; the errors below 200 are those of the transport.
NoError == 0

\* A plausible slip in GetReplyData: the error object is looked for after an
\* error of the transport too.
GetReplyDataAfterAnyError(reply) ==
  IF reply.error = NoError /\ reply.status = 200
  THEN [data |-> reply.data, logout |-> FALSE]
  ELSE LET json == reply.data
           found == /\ json.t = "object"
                    /\ DOMAIN json.f # {}
                    /\ "status" \in DOMAIN json.f
                    /\ "userMessage" \in DOMAIN json.f
       IN [data |-> [t |-> "empty"],
           logout |-> /\ found
                      /\ json.f["status"] = [t |-> "number", n |-> 401]
                      /\ "subStatus" \in DOMAIN json.f
                      /\ json.f["subStatus"] = [t |-> "number", n |-> 6001]]

\* TidalCoverProvider::GetReplyData: the body of a reply without error and
\* with HTTP status 200; otherwise nothing, and the service is logged out when
\* the body is a JSON object with status, userMessage, status 401 and
\* subStatus 6001.
GetReplyData(reply) ==
  IF reply.error = NoError /\ reply.status = 200
  THEN [data |-> reply.data, logout |-> FALSE]
  ELSE IF reply.error # NoError /\ reply.error < 200
  THEN [data |-> NoData, logout |-> FALSE]
  ELSE LET json == reply.data
           found == /\ isObject(json)
                    /\ DOMAIN json.f # {}
                    /\ contains(json, "status")
                    /\ contains(json, "userMessage")
           status == IF found THEN jsonToInt(json.f["status"]) ELSE 0
           sub_status ==
             IF found /\ contains(json, "subStatus")
             THEN jsonToInt(json.f["subStatus"]) ELSE 0
       IN [data |-> NoData, logout |-> status = 401 /\ sub_status = 6001]

\* JsonCoverProvider::ExtractJsonObj: the object the data holds, or the empty
\* object when the data is not a JSON object.
EmptyObject == JObj([k \in {} |-> JNull])
ExtractJsonObj(data) == IF isObject(data) THEN data ELSE EmptyObject

\* Song::AlbumRemoveDiscMisc: the disc part is taken off the album title.
AlbumRemoveDiscMisc(album) ==
  CASE album = "X (Disc 2)" -> "X"
    [] OTHER -> album

\* QString::replace("-", "/") on the cover ids of the model.
ReplaceDashes(cover) ==
  CASE cover = "ab-cd" -> "ab/cd"
    [] cover = "ef-gh" -> "ef/gh"
    [] OTHER -> cover

\* The sizes a cover is offered in, in the order of the results.
cover_sizes == <<"1280x1280", "750x750", "640x640">>

\* The three results of one item: the same artist, album and number, one
\* image url for each size.
ItemResults(artist, album, cover, number) ==
  [k \in DOMAIN cover_sizes |->
     [artist |-> artist, album |-> AlbumRemoveDiscMisc(album),
      number |-> number,
      image_url |-> "/images/" \o cover \o "/" \o cover_sizes[k] \o ".jpg",
      image_size |-> cover_sizes[k]]]

\* The album object of an item: its "album" if it has one, else the item.
AlbumOf(obj_item) ==
  IF contains(obj_item, "album") THEN obj_item.f["album"] ELSE obj_item

\* HandleSearchReply, its tests of one item of the items array.
ValidItem(value_item) ==
  /\ isObject(value_item)
  /\ contains(value_item, "artist")
  /\ isObject(value_item.f["artist"])
  /\ contains(value_item.f["artist"], "name")
  /\ isObject(AlbumOf(value_item))
  /\ contains(AlbumOf(value_item), "title")
  /\ contains(AlbumOf(value_item), "cover")

\* A plausible slip in HandleSearchReply: the number is counted for every
\* item, valid or not.
RECURSIVE ItemsResultsCountingAll(_, _)
ItemsResultsCountingAll(array_items, i) ==
  IF array_items = <<>> THEN <<>>
  ELSE LET value_item == Head(array_items)
       IN IF ~ValidItem(value_item)
          THEN ItemsResultsCountingAll(Tail(array_items), i + 1)
          ELSE LET obj_album == AlbumOf(value_item)
               IN ItemResults(
                    jsonToString(value_item.f["artist"].f["name"]),
                    jsonToString(obj_album.f["title"]),
                    ReplaceDashes(jsonToString(obj_album.f["cover"])),
                    i + 1)
                  \o ItemsResultsCountingAll(Tail(array_items), i + 1)

\* HandleSearchReply, its loop over the items, i being the number of the
\* last valid item: an item that is not valid is skipped, a valid one takes
\* the next number and gives three results.
RECURSIVE ItemsResults(_, _)
ItemsResults(array_items, i) ==
  IF array_items = <<>> THEN <<>>
  ELSE LET value_item == Head(array_items)
       IN IF ~ValidItem(value_item)
          THEN ItemsResults(Tail(array_items), i)
          ELSE LET obj_album == AlbumOf(value_item)
               IN ItemResults(
                    jsonToString(value_item.f["artist"].f["name"]),
                    jsonToString(obj_album.f["title"]),
                    ReplaceDashes(jsonToString(obj_album.f["cover"])),
                    i + 1)
                  \o ItemsResults(Tail(array_items), i + 1)

\* HandleSearchReply, the results it emits for the data GetReplyData gave:
\* none for empty data, for data that is no JSON object, for an object
\* without items, for items that are no array or an empty one.
SearchResults(data) ==
  IF data = NoData THEN <<>>
  ELSE LET json_obj == ExtractJsonObj(data)
       IN IF DOMAIN json_obj.f = {} THEN <<>>
          ELSE IF ~contains(json_obj, "items") THEN <<>>
          ELSE IF json_obj.f["items"].t # "array" THEN <<>>
          ELSE ItemsResults(json_obj.f["items"].a, 0)

\* A plausible slip in HandleSearchReply: the return for empty data has lost
\* its SearchFinished.
EmittedUnlessEmpty(id, data) ==
  IF data = NoData THEN <<>>
  ELSE <<[id |-> id, results |-> SearchResults(data)]>>

\* HandleSearchReply, the SearchFinished signals it emits for a reply it
\* keeps: one on every path, with the id of the search.
Emitted(id, data) == <<[id |-> id, results |-> SearchResults(data)]>>

\* QList::removeAll.
RemoveAll(list, x) == SelectSeq(list, LAMBDA y : y # x)

\* TidalCoverProvider::StartSearch, its tests before a request is built.
CanSearch(service, artist, album, title) ==
  /\ service.present /\ service.authenticated
  /\ ~(artist = "" /\ album = "" /\ title = "")

\* A query that always has a space after the artist.
SearchQueryAlwaysSpaced(artist, album, title) ==
  IF album = "" /\ title # "" THEN artist \o " " \o title
  ELSE artist \o " " \o album

\* TidalCoverProvider::StartSearch, the resource and the query of the request.
SearchResource(album, title) ==
  IF album = "" /\ title # "" THEN "search/tracks" ELSE "search/albums"
SearchQuery(artist, album, title) ==
  LET query == artist
      spaced == IF query # "" THEN query \o " " ELSE query
  IN IF album = "" /\ title # "" THEN spaced \o title
     ELSE IF album # "" THEN spaced \o album
     ELSE query

\* The next reply the network hands out.
NextReply == Len(sent) + 1

\* TidalCoverProvider::StartSearch.
StartSearch(artist, album, title, id) ==
  /\ provider_alive
  /\ IF ~CanSearch(service_, artist, album, title)
     THEN /\ started' = [op |-> "StartSearch", artist |-> artist,
                         album |-> album, title |-> title, id |-> id,
                         result |-> FALSE]
          /\ UNCHANGED <<replies_, network, sent>>
     ELSE /\ Len(sent) < MaxSearches
          /\ sent' = Append(sent, [reply |-> NextReply,
                                   resource |-> SearchResource(album, title),
                                   query |-> SearchQuery(artist, album, title),
                                   limit |-> kLimit])
          /\ replies_' = Append(replies_, NextReply)
          /\ network' = network \cup {[reply |-> NextReply, id |-> id]}
          /\ started' = [op |-> "StartSearch", artist |-> artist,
                         album |-> album, title |-> title, id |-> id,
                         result |-> TRUE]
  /\ UNCHANGED <<service_, search_finished, cancelled, aborted,
                 provider_alive>>
  /\ UNCHANGED <<dialogVars, loadLog, commitLog, probeVars, artVars, listVars>>

\* TidalCoverProvider::CancelSearch: the id is not used.
CancelSearch(id) ==
  /\ provider_alive
  /\ cancelled' = cancelled \cup {id}
  /\ UNCHANGED <<service_, replies_, network, search_finished, sent, started,
                 aborted, provider_alive>>
  /\ UNCHANGED <<dialogVars, loadLog, commitLog, probeVars, artVars, listVars>>

\* TidalCoverProvider::HandleSearchReply(reply, id), the reply having
\* finished with the given error, status and body.
HandleSearchReply(r, body) ==
  IF r.reply \notin {replies_[k] : k \in DOMAIN replies_}
  THEN UNCHANGED <<service_, replies_, search_finished>>
  ELSE LET got == GetReplyData(body)
       IN /\ replies_' = RemoveAll(replies_, r.reply)
          /\ service_' = IF got.logout
                         THEN [service_ EXCEPT !.authenticated = FALSE]
                         ELSE service_
          /\ search_finished' = search_finished \o Emitted(r.id, got.data)

\* QNetworkReply::finished for a request the provider sent: the connection
\* made by StartSearch runs HandleSearchReply while the provider is there.
SearchReplyFinished(r, body) ==
  /\ r \in network
  /\ network' = network \ {r}
  /\ IF provider_alive THEN HandleSearchReply(r, body)
     ELSE UNCHANGED <<service_, replies_, search_finished>>
  /\ UNCHANGED <<sent, cancelled, started, aborted, provider_alive>>
  /\ UNCHANGED <<dialogVars, loadLog, commitLog, probeVars, artVars, listVars>>

\* TidalCoverProvider::~TidalCoverProvider: every reply kept is taken off
\* replies_, disconnected and aborted.
DestroyProvider ==
  /\ provider_alive
  /\ provider_alive' = FALSE
  /\ aborted' = aborted \cup {replies_[k] : k \in DOMAIN replies_}
  /\ network' = {r \in network : r.reply \notin
                   {replies_[k] : k \in DOMAIN replies_}}
  /\ replies_' = <<>>
  /\ UNCHANGED <<service_, search_finished, sent, cancelled, started>>
  /\ UNCHANGED <<dialogVars, loadLog, commitLog, probeVars, artVars, listVars>>

\* What the caller searches for.
SearchArtists == {"", "R"}
SearchAlbums == {"", "X"}
SearchTitles == {"", "S"}
\* The ids the cover fetcher gives its searches.
SearchIds == 101..(100 + MaxSearches)
UsedIds == {r.id : r \in network} \cup
           {search_finished[k].id : k \in DOMAIN search_finished}

\* Items of a reply: an album with its cover, a track with its album, and
\* items that are not valid.
ItemAlbum ==
  JObj([artist |-> JObj([name |-> JStr("R")]), title |-> JStr("X (Disc 2)"),
        cover |-> JStr("ab-cd")])
ItemTrack ==
  JObj([artist |-> JObj([name |-> JStr("R")]), title |-> JStr("S"),
        album |-> JObj([title |-> JStr("X"), cover |-> JStr("ef-gh")])])
ItemNoObject == JStr("item")
ItemNoArtist == JObj([title |-> JStr("X"), cover |-> JStr("ab-cd")])
ItemArtistNoObject ==
  JObj([artist |-> JStr("R"), title |-> JStr("X"), cover |-> JStr("ab-cd")])
ItemArtistNoName ==
  JObj([artist |-> JObj([id |-> JNum(7)]), title |-> JStr("X"),
        cover |-> JStr("ab-cd")])
ItemAlbumNoObject ==
  JObj([artist |-> JObj([name |-> JStr("R")]), album |-> JStr("X"),
        title |-> JStr("S"), cover |-> JStr("ab-cd")])
ItemNoTitle ==
  JObj([artist |-> JObj([name |-> JStr("R")]), cover |-> JStr("ab-cd")])
ItemNoCover ==
  JObj([artist |-> JObj([name |-> JStr("R")]),
        album |-> JObj([title |-> JStr("X")])])
ValidItems == {ItemAlbum, ItemTrack}
InvalidItems == {ItemNoObject, ItemNoArtist, ItemArtistNoObject,
                 ItemArtistNoName, ItemAlbumNoObject, ItemNoTitle, ItemNoCover}

\* How a reply can finish: with an error of the transport, with an HTTP error
\* and the API's error object, with status 200 and a body of any kind.
TransportError == [error |-> 3, status |-> 0, data |-> NoData]
SessionExpired ==
  [error |-> 204, status |-> 401,
   data |-> JObj([status |-> JNum(401), subStatus |-> JNum(6001),
                  userMessage |-> JStr("The token has expired.")])]
ServerError == [error |-> 401, status |-> 500, data |-> NotJson]
Ok(data) == [error |-> NoError, status |-> 200, data |-> data]
TidalReplies ==
  {TransportError, SessionExpired, ServerError,
   Ok(NoData), Ok(NotJson), Ok(EmptyObject),
   Ok(JObj([totalNumberOfItems |-> JNum(0)])),
   Ok(JObj([items |-> JStr("none")])),
   Ok(JObj([items |-> JArr(<<>>)])),
   Ok(JObj([items |-> JArr(<<ItemNoCover, ItemAlbum>>)]))}

TidalNext ==
  \/ \E artist \in SearchArtists, album \in SearchAlbums :
        \E id \in SearchIds :
           id \notin UsedIds /\ StartSearch(artist, album, "", id)
  \/ \E r \in network : CancelSearch(r.id)
  \/ \E r \in network : \E body \in TidalReplies : SearchReplyFinished(r, body)
  \/ DestroyProvider

\* The provider searching, its replies finishing in any order and in any way,
\* and its destruction at any moment.
SpecTidal == Init /\ [][TidalNext]_vars

\* The services a provider can be constructed with: none, one that is not
\* logged in, one that is.
Services ==
  {[present |-> FALSE, authenticated |-> FALSE],
   [present |-> TRUE, authenticated |-> FALSE],
   [present |-> TRUE, authenticated |-> TRUE]}

StartInit ==
  /\ EditTagDialogInit
  /\ service_ \in Services
  /\ pfield = "title"
  /\ pdata = <<>>
  /\ psel = <<>>
  /\ plast = NoOp

StartNext ==
  \/ \E artist \in SearchArtists, album \in SearchAlbums,
         title \in SearchTitles :
        \E id \in SearchIds :
           id \notin UsedIds /\ StartSearch(artist, album, title, id)
  \/ \E r \in network : \E body \in TidalReplies : SearchReplyFinished(r, body)

\* Searches for every combination of artist, album and title, with every
\* service.
SpecTidalStart == StartInit /\ [][StartNext]_vars

\* The largest number of items in a reply.
MaxItems == 2

\* The items arrays of well-formed replies.
ReplyItems == ValidItems \cup InvalidItems
ItemArrays == UNION {[1..n -> ReplyItems] : n \in 0..MaxItems}

\* The reply of a request has received its body (QNetworkReply buffers what
\* the server sends until readAll); it has not finished yet.
ReplyReceived(r, array_items) ==
  /\ r \in network /\ "body" \notin DOMAIN r
  /\ network' = (network \ {r}) \cup
                   {[reply |-> r.reply, id |-> r.id,
                     body |-> Ok(JObj([items |-> JArr(array_items)]))]}
  /\ UNCHANGED <<service_, replies_, search_finished, sent, cancelled,
                 started, aborted, provider_alive>>
  /\ UNCHANGED <<dialogVars, loadLog, commitLog, probeVars, artVars, listVars>>

\* QNetworkReply::finished of a reply that has received its body.
ReceivedReplyFinished(r) ==
  /\ "body" \in DOMAIN r
  /\ SearchReplyFinished(r, r.body)

ReplyNext ==
  \/ \E artist \in SearchArtists, album \in SearchAlbums,
         title \in SearchTitles :
        \E id \in SearchIds :
           sent = <<>> /\ StartSearch(artist, album, title, id)
  \/ \E r \in network : \E array_items \in ItemArrays :
        ReplyReceived(r, array_items)
  \/ \E r \in network : ReceivedReplyFinished(r)

\* One search answered by a well-formed reply with any items.
SpecTidalReply == Init /\ [][ReplyNext]_vars

\* How a reply can end: the errors of QNetworkReply (none, two of the
\* transport, two of the content and the server), the HTTP status, and the
\* bytes received.
ReplyErrors == {NoError, 3, 199, 201, 401}
ReplyStatuses == {0, 200, 401}
ExpiredObject(status, sub_status) ==
  JObj([status |-> status, subStatus |-> sub_status,
        userMessage |-> JStr("The token has expired.")])
ReplyBytes ==
  {NoData, NotJson, JArr(<<>>), EmptyObject,
   ExpiredObject(JNum(401), JNum(6001)),
   ExpiredObject(JNum(401), JNum(6002)),
   ExpiredObject(JNum(400), JNum(6001)),
   ExpiredObject(JStr("401"), JNum(6001)),
   JObj([status |-> JNum(401), subStatus |-> JNum(6001)]),
   JObj([status |-> JNum(401), userMessage |-> JStr("Unauthorized")]),
   JObj([items |-> JArr(<<ItemAlbum>>)])}
EndedReplies ==
  {[error |-> e, status |-> h, data |-> d] :
     e \in ReplyErrors, h \in ReplyStatuses, d \in ReplyBytes}

\* The reply of a request has ended in some way; it has not finished yet.
ReplyEnded(r, body) ==
  /\ r \in network /\ "body" \notin DOMAIN r
  /\ network' = (network \ {r}) \cup
                   {[reply |-> r.reply, id |-> r.id, body |-> body]}
  /\ UNCHANGED <<service_, replies_, search_finished, sent, cancelled,
                 started, aborted, provider_alive>>
  /\ UNCHANGED <<dialogVars, loadLog, commitLog, probeVars, artVars, listVars>>

ReplyDataNext ==
  \/ \E artist \in SearchArtists, album \in SearchAlbums :
        \E id \in SearchIds :
           sent = <<>> /\ StartSearch(artist, album, "", id)
  \/ \E r \in network : \E body \in EndedReplies : ReplyEnded(r, body)
  \/ \E r \in network : ReceivedReplyFinished(r)

\* One search whose reply ends with any error, status and bytes.
SpecReplyData == Init /\ [][ReplyDataNext]_vars

\* ------------------------------------------------------------ the claims
Range(q) == {q[i] : i \in DOMAIN q}
Modified(d) == ~IsMetadataEqual(d.current_, d.original_)
ModifiedRows == {r \in DOMAIN data_ : Modified(data_[r])}
Completed == {o[1] : o \in outcome}
Failed == {o[1] : o \in {x \in outcome : ~x[2]}}
Reported == {e.filename : e \in errors}
UpsertCount(f) ==
  BagCardinality([s \in {x \in BagToSet(upserts) : x.url = f} |-> upserts[s]])
Currents(data) == [i \in DOMAIN data |-> data[i].current_]
LoadFinishes == \E s \in futures : SetSongsFinished(s)

\* C1: a commit of a batch of which K entries differ from their original
\* requests exactly K writes, one for each differing entry with its current
\* record and none for an unchanged entry; the dialog is closed exactly once,
\* and only when all K writes have completed, whatever their order and outcomes.
C1_Issues ==
  (accept /\ ~loading_) =>
     /\ Len(issued') = Cardinality(ModifiedRows)
     /\ NoRepeat(issued')
     /\ Range(issued') = {data_[r].current_.url : r \in ModifiedRows}
     /\ replies' = {[filename |-> data_[r].current_.url,
                     song |-> data_[r].current_] : r \in ModifiedRows}
     /\ pending_' = Cardinality(ModifiedRows)
C1_Signals ==
  /\ accepted <= 1
  /\ ~committed => accepted = 0
  /\ committed => (accepted = 1 <=> Completed = Range(issued))
  /\ accepted = 1 => (replies = {} /\ pending_ = 0)
C1_CommitWritesEachModifiedEntry == []C1_Signals /\ [][C1_Issues]_vars
C1_Witness ==
  /\ accepted = 1
  /\ Len(data_) = 2
  /\ Len(issued) = 1

\* C2: a commit of a batch in which no entry differs from its original
\* requests no write and closes the dialog within the accept call: the dialog
\* is not busy afterwards and no write is pending.
C2_CommitWithoutChanges ==
  [][(accept /\ ~loading_ /\ ModifiedRows = {}) =>
       /\ replies' = {}
       /\ issued' = <<>>
       /\ accepted' = 1
       /\ ~loading_'
       /\ pending_' = 0]_vars
C2_Witness ==
  /\ committed
  /\ accepted = 1
  /\ issued = <<>>
  /\ Len(data_) >= 1
  /\ ~loading_
  /\ pending_ = 0

\* C3: a failed write neither prevents nor cancels another write of the same
\* commit: the other writes stay outstanding until they complete, a successful
\* write of a collection song is upserted exactly once, a failed write is
\* never upserted, and an error is recorded for exactly the failed files.
C3_PartialFailure ==
  /\ \A o \in outcome :
       IF o[2]
       THEN /\ o[1] \in CollectionFiles => UpsertCount(o[1]) = 1
            /\ o[1] \notin Reported
       ELSE /\ UpsertCount(o[1]) = 0
            /\ Cardinality({e \in errors : e.filename = o[1]}) = 1
  /\ Reported = Failed
  /\ \A s \in BagToSet(upserts) : <<s.url, TRUE>> \in outcome
  /\ {w.filename : w \in replies} = Range(issued) \ Completed
C3_Witness ==
  /\ accepted = 1
  /\ \E bad, good \in outcome :
       /\ ~bad[2] /\ good[2]
       /\ Reported = {bad[1]}
       /\ UpsertCount(good[1]) = 1

\* C4, as claimed: no Error is emitted while a write is still pending.
C4_ErrorsOnlyAfterAllWrites == \A e \in errors : e.pending = 0
\* C4, amended: a write failure is reported by Error when the failed write
\* completes, once for each failed file, whether or not other writes of the
\* commit are still outstanding: the pending count at that moment is the
\* number of writes not completed yet, which may be more than zero.
C4_Reported == \A o \in outcome : ~o[2] => o[1] \in Reported
C4_Emits ==
  \A e \in errors' \ errors :
     /\ \E reply \in replies :
          /\ reply.filename = e.filename
          /\ replies' = replies \ {reply}
     /\ e.pending = pending_'
     /\ e.pending = Cardinality(replies')
C4_ErrorsAtEachFailure == []C4_Reported /\ [][C4_Emits]_vars
C4_Witness == \E e \in errors : e.pending > 0

\* C5: while the dialog is busy a further SetSongs or accept call is a no-op:
\* no load is started, no write is requested, the entries, the busy flag and
\* the pending count stay as they are; a load and writes are never outstanding
\* at the same time.
C5_OneBusyState ==
  /\ ~(futures # {} /\ replies # {})
  /\ futures # {} => (loading_ /\ ui_.loading_label = kLoadingTracks)
  /\ replies # {} => (loading_ /\ ui_.loading_label = kSavingTracks)
C5_Rejected ==
  (loading_ /\ ((\E s \in Batches : SetSongs(s)) \/ accept)) =>
     UNCHANGED <<data_, loading_, ui_, pending_, futures, replies>>
C5_BusyRejectsRequests == []C5_OneBusyState /\ [][C5_Rejected]_vars
C5_Witness ==
  /\ loading_
  /\ futures # {}
  /\ superseded

\* C6: while the dialog is busy no entry's current record changes.
C6_NoMutationWhileBusy ==
  [][(loading_ /\ loading_') => Currents(data_') = Currents(data_)]_vars

\* C7, as claimed: when another batch was requested while a load was
\* outstanding, the entries shown when the load finishes are those of the
\* latest request.
C7_LatestRequestShown ==
  [][(LoadFinishes /\ latest_request # <<>>) =>
       data_' = LoadData(latest_request[1])]_vars
\* C7, amended: a batch requested while an earlier load is outstanding is
\* ignored: it starts no background read, so at most one load is outstanding,
\* and the entries shown when it finishes are those of the request that
\* started it; no result of a load is discarded.
C7_OneLoad ==
  /\ Cardinality(futures) <= 1
  /\ futures # {} => (futures = {loaded_request} /\ loading_)
C7_Applied ==
  LoadFinishes => (data_' = LoadData(loaded_request) /\ futures' = {})
C7_FirstRequestShown == []C7_OneLoad /\ [][C7_Applied]_vars
C7_Witness ==
  /\ superseded
  /\ ~loading_
  /\ futures = {}
  /\ data_ # <<>>

\* C8: when a load finishes, the entries are exactly the songs of the
\* requested batch that were re-read as valid, in the order of the request,
\* each with current equal to original; nothing of the previous entries is
\* left; if no song is valid there is no entry and the song list and the tabs
\* are disabled.
RereadValid(song) ==
  song.valid /\ song.editable /\ song.url \notin Corrupt
ExpectedEntries(request) ==
  LET kept == SelectSeq(request, RereadValid)
  IN [i \in DOMAIN kept |->
        LET reread == MergeUserSetData(ReadFileBlocking(kept[i]), kept[i])
        IN [original_ |-> reread, current_ |-> reread]]
C8_LoadKeepsTheValidSongs ==
  [][\A s \in futures : SetSongsFinished(s) =>
        /\ data_' = ExpectedEntries(s)
        /\ ~loading_'
        /\ data_' = <<>> =>
             (~ui_'.tab_widget /\ ~ui_'.song_list /\ sel' = <<>>)]_vars
C8_Witness ==
  /\ ~loading_
  /\ Len(loaded_request) = 2
  /\ Len(data_) = 1
  /\ \E i \in DOMAIN loaded_request : loaded_request[i].url \in Corrupt
  /\ data_[1].current_ = data_[1].original_

\* C9: editing fields, resetting fields and applying fetched tags never
\* change an entry's original record: it stays the record the load produced.
C9_OriginalNeverEdited ==
  /\ Len(pdata) = Len(ProbeLoaded)
  /\ \A i \in DOMAIN pdata : pdata[i].original_ = ProbeLoaded[i].original_
C9_Witness ==
  /\ plast.op = "fetch"
  /\ \E i \in DOMAIN pdata :
       /\ pdata[i].current_.artist # pdata[i].original_.artist
       /\ current_value(pdata[i], pfield) # original_value(pdata[i], pfield)

\* The QVariant that holds the plain value x of the field id.
QVariantOf(id, x) ==
  IF id \in BoolKeys THEN QBool(x)
  ELSE IF id \in IntKeys THEN QInt(x)
  ELSE QStr(x)

\* C10: for each of the 14 fields and each value of the field's type, setting
\* the field on a selection of one entry and reading it back gives that value,
\* and the value does not vary.
FieldType(id) == value(CallerSong(1), id).t
\* EditTagDialog::InitFieldValue, what the editor of the field is given: when
\* the value varies the editor is cleared and only hints at it (it holds no
\* song's value), otherwise it holds the first selected song's current value.
FieldValue(data, selected, id) ==
  LET varies == DoesValueVary(data, selected, id)
  IN [value |-> IF varies THEN Invalid
                ELSE current_value(data[selected[1]], id),
      varies |-> varies]
C10_SetThenRead ==
  (plast.op = "set" /\ Len(psel) = 1 /\ plast.v.t = FieldType(pfield)) =>
     FieldValue(pdata, psel, pfield) = [value |-> plast.v, varies |-> FALSE]
C10_Witness ==
  /\ plast.op = "set"
  /\ Len(psel) = 1
  /\ pfield = "year"
  /\ plast.v = QInt(2)
  /\ current_value(pdata[psel[1]], "year") = QInt(2)
  /\ original_value(pdata[psel[1]], "year") # QInt(2)

\* C11: for each field and selection, a reset of the field after any edits
\* leaves every selected entry's current value of the field equal to its
\* original value, so the field is not modified on that selection.
C11_ResetRestoresOriginal ==
  plast.op = "reset" =>
     /\ \A r \in Range(psel) :
          pdata[r].current_[pfield] = pdata[r].original_[pfield]
     /\ ~IsValueModified(pdata, psel, pfield)
C11_Witness ==
  /\ plast.op = "reset"
  /\ Len(psel) = 1
  /\ \E r \in DOMAIN pdata :
       /\ r \notin Range(psel)
       /\ pdata[r].current_[pfield] # pdata[r].original_[pfield]
       /\ pdata[r].current_["genre"] # pdata[r].original_["genre"]

\* C12: a field is modified on a selection exactly when at least one selected
\* entry's current value of the field differs from its original value; it is
\* not modified on an empty selection.
C12_ModifiedIfSomeEntryDiffers ==
  /\ IsValueModified(pdata, psel, pfield) <=>
       \E r \in Range(psel) :
          pdata[r].current_[pfield] # pdata[r].original_[pfield]
  /\ ~IsValueModified(pdata, <<>>, pfield)
C12_Witness ==
  /\ Len(psel) = 2
  /\ IsValueModified(pdata, psel, pfield)
  /\ \E r \in Range(psel) :
       pdata[r].current_[pfield] = pdata[r].original_[pfield]

CoverAssigned(cover_url) ==
  \/ cover_url \in CoverUrls /\ LoadCoverFromURL(cover_url)
  \/ cover_url = kManuallyUnsetCover /\ UnsetCover
SameAlbum(a, b) == a.albumartist = b.albumartist /\ a.album = b.album
Tracked(song) == song.valid /\ song.id # NoId

C15_CurrentCoverFollowsOriginal ==
  plast.op = "cover" =>
     /\ \A r \in DOMAIN pdata :
          pdata[r].current_.art_manual = pdata[r].original_.art_manual
     /\ pdata[psel[1]].current_.art_manual = plast.v.v

\* C16: after any cover assignments to a freshly loaded batch, and no field
\* edit, no field is modified on any selection and a commit requests no write.
C16_CoverIsNoPendingEdit ==
  /\ \A id \in FieldKeys : \A q \in Selections(Len(pdata)) :
       ~IsValueModified(pdata, q, id)
  /\ SaveData(pdata) = <<>>

\* The row of the entry of file f.
EntryOf(f) == FindRow(data_, f)
CommitStep ==
  \/ accept
  \/ \E reply \in replies : \E success \in BOOLEAN :
        SongSaveComplete(reply, success)

\* C17, as claimed: when a commit has finished, the original record of every
\* entry whose write succeeded has been replaced by its current record, so
\* the entry is not modified any more.
C17_OriginalReplacedAfterCommit ==
  accepted = 1 =>
     \A o \in outcome :
        o[2] => (EntryOf(o[1]) # 0 /\ ~Modified(data_[EntryOf(o[1])]))
\* C17, amended: a commit never assigns to the entries: accept and the
\* completions of the writes leave every original and current record as it
\* is, so when the commit has finished every written entry, its write
\* succeeded or not, still differs from its original and another commit
\* without a reload would request its write again.
C17_WrittenStaysModified ==
  accepted = 1 =>
     \A f \in Range(issued) :
        /\ EntryOf(f) # 0
        /\ Modified(data_[EntryOf(f)])
        /\ \E i \in DOMAIN SaveData(data_) : SaveData(data_)[i].filename = f
C17_CommitKeepsEntries ==
  [](C17_WrittenStaysModified) /\ [][CommitStep => data_' = data_]_vars
C17_Witness ==
  /\ accepted = 1
  /\ \E o \in outcome :
       o[2] /\ EntryOf(o[1]) # 0 /\ Modified(data_[EntryOf(o[1])])

C19_NoValue ==
  /\ pfield \notin FieldKeys
  /\ \A q \in Selections(Len(pdata)) :
       /\ ~IsValueModified(pdata, q, pfield)
       /\ q # <<>> =>
            FieldValue(pdata, q, pfield) = [value |-> Invalid, varies |-> FALSE]
  /\ errors = {}
C19_NoChange ==
  ((\E v \in ProbeValues : ProbeFieldValueEdited(v)) \/ ProbeResetField)
     => pdata' = pdata
C19_UnknownKeyRejected == []C19_NoValue /\ [][C19_NoChange]_vars
C19_Witness ==
  /\ pfield = "Title"
  /\ plast = [op |-> "set", v |-> QStr("B")]
  /\ Len(psel) = 2
  /\ pdata = ProbeLoaded

\* C20: destroying the dialog while a load or writes are outstanding cancels
\* none of them, and nothing that finishes afterwards reads or writes the
\* state of the destroyed dialog (the entries, the busy flag, the pending
\* count): no handler of the dialog runs any more.
C20_NothingCancelled ==
  Destroy => (futures' = futures /\ replies' = replies)
C20_NothingTouched ==
  ~alive =>
     /\ UNCHANGED <<data_, loading_, pending_, sel>>
     /\ UNCHANGED <<outcome, errors, upserts, accepted>>
C20_DestroyedIsLeftAlone ==
  [][C20_NothingCancelled /\ C20_NothingTouched]_vars
C20_Witness ==
  /\ ~alive
  /\ replies = {}
  /\ Len(issued) = 2
  /\ pending_ = 2
  /\ loading_

\* A reply of the network finishes for the search r.
SearchFinishes(r) == \E body \in TidalReplies : SearchReplyFinished(r, body)
Kept == {replies_[k] : k \in DOMAIN replies_}

\* C21: after CancelSearch(id) the reply of the search started with that id
\* is not kept in replies_ any more, and no SearchFinished with results is
\* emitted for that id when its reply finishes.
C21_CancelledNotTracked ==
  \A r \in network : r.id \in cancelled => r.reply \notin Kept
C21_NoResultsAfterCancel ==
  \A r \in network :
     (SearchFinishes(r) /\ r.id \in cancelled) =>
        \A k \in DOMAIN search_finished' \ DOMAIN search_finished :
           ~(search_finished'[k].id = r.id /\
             search_finished'[k].results # <<>>)
C21_CancelSearchCancels ==
  []C21_CancelledNotTracked /\ [][C21_NoResultsAfterCancel]_vars

\* The dialog's latest request to the cover loader.
LatestLoad == {l \in loads : l.id = cover_art_id_}

\* C22: a loaded cover is applied only when its id is that of the dialog's
\* latest request: a cover of an earlier request of the dialog, or of a
\* request of another part of the player, changes neither the displayed cover
\* nor the stored image; once the latest request is answered, both are the
\* cover of the song it was made for.
C22_LatestShown ==
  /\ \A l \in LatestLoad :
        l.done => (ui_art = l.image /\ image_original = l.image)
  /\ ui_art = image_original
  /\ ui_art # NoCover =>
        \E l \in loads : l.by = "dialog" /\ l.done /\ l.image = ui_art
C22_StaleDropped ==
  \A l \in loads :
     AlbumCoverLoaded(l) =>
        IF l.id = cover_art_id_
        THEN ui_art' = l.image /\ image_original' = l.image
        ELSE UNCHANGED <<ui_art, image_original>>
ProbeEdits ==
  \/ \E v \in ProbeValues : ProbeFieldValueEdited(v)
  \/ ProbeResetField

\* C23: an edit and a reset of a field change nothing but the current value
\* of that field in the selected entries: the other fields of the selected
\* entries, their original records, the entries that are not selected, the
\* number of entries, the busy flag and the pending count stay as they are.
C23_EditsOnlyTheField ==
  [][ProbeEdits =>
       /\ Len(pdata') = Len(pdata)
       /\ \A r \in DOMAIN pdata :
            /\ pdata'[r].original_ = pdata[r].original_
            /\ r \notin Range(psel) => pdata'[r] = pdata[r]
            /\ \A key \in DOMAIN pdata[r].current_ \ {pfield} :
                 pdata'[r].current_[key] = pdata[r].current_[key]
       /\ loading_' = loading_
       /\ pending_' = pending_]_vars
C23_Witness ==
  /\ plast.op = "set"
  /\ pfield = "disc"
  /\ psel = <<2>>
  /\ pdata[2].current_.disc # pdata[2].original_.disc
  /\ pdata[2].current_.track = pdata[2].original_.track
  /\ pdata[1] = ProbeLoaded[1]

C25_PendingCountsWrites ==
  /\ pending_ = Cardinality(replies)
  /\ pending_ = Len(issued) - Cardinality(outcome)
  /\ pending_ >= 0
  /\ pending_ > 0 => (loading_ /\ ui_.loading_label = kSavingTracks)
  /\ accepted >= 1 => (pending_ = 0 /\ ~loading_)
C25_Witness ==
  /\ pending_ = 1
  /\ Len(issued) = 2
  /\ Cardinality(outcome) = 1
  /\ loading_

\* C26: the song handed to the collection for an entry whose statistics
\* were reset carries the reset statistics: play count 0, skip count 0,
\* never played.
C26_UpsertCarriesReset ==
  \A song \in BagToSet(upserts) :
     song.id \in Range(reset_requests) =>
        /\ song.playcount = 0
        /\ song.skipcount = 0
        /\ song.lastplayed = NeverPlayed

\* The step is a cover action: a slot of the cover menu or a drop.
CoverAction ==
  plast'.op \in AssigningSlots \cup ShowingSlots \cup {"UnsetCover", "Drop"}

\* C27: a cover action with nothing selected is a no-op: no null song and no
\* element of the empty selection is accessed, and the entries stay as they
\* are.
C27_EmptySelectionIsNoOp ==
  [][(psel = <<>> /\ CoverAction) => (pdata' = pdata /\ ~fault')]_vars

\* The replies the network still has to finish, and the ids answered.
Pending == {r.reply : r \in network}
AnsweredIds == {search_finished[k].id : k \in DOMAIN search_finished}

\* C28: every StartSearch that returns true is answered by exactly one
\* SearchFinished with its id when its reply finishes, whatever the reply
\* holds; a StartSearch that returns false sends and emits nothing; replies_
\* holds exactly the replies issued and not yet handled, each once, and the
\* destructor empties it and aborts every reply it held.
C28_RepliesKept ==
  /\ Kept = Pending
  /\ Cardinality(Kept) = Len(replies_)
  /\ Cardinality(AnsweredIds) = Len(search_finished)
  /\ AnsweredIds \cap {r.id : r \in network} = {}
  /\ Len(search_finished) + Cardinality(network) + Cardinality(aborted)
       = Len(sent)
  /\ ~provider_alive => replies_ = <<>>
C28_OneAnswerPerReply ==
  \A r \in network :
     (provider_alive' /\ r \notin network') =>
        /\ r.reply \in Kept /\ r.reply \notin Kept'
        /\ Len(search_finished') = Len(search_finished) + 1
        /\ search_finished'[Len(search_finished')].id = r.id
C28_FalseEmitsNone ==
  (started' # started /\ ~started'.result) =>
     /\ search_finished' = search_finished
     /\ sent' = sent /\ replies_' = replies_ /\ network' = network
C28_TrueIsKept ==
  (started' # started /\ started'.result) =>
     /\ Len(sent') = Len(sent) + 1
     /\ Kept' = Kept \cup {Len(sent')}
     /\ [reply |-> Len(sent'), id |-> started'.id] \in network'
     /\ search_finished' = search_finished
C28_DestructorAborts ==
  (provider_alive /\ ~provider_alive') =>
     /\ replies_' = <<>>
     /\ aborted' = aborted \cup Kept
     /\ search_finished' = search_finished
C28_EverySearchAnswered ==
  /\ []C28_RepliesKept
  /\ [][C28_OneAnswerPerReply /\ C28_FalseEmitsNone /\ C28_TrueIsKept
        /\ C28_DestructorAborts]_vars
\* A search answered with no results after a reply without data, and
\* another search aborted by the destructor.
C28_Witness ==
  /\ Len(search_finished) = 1 /\ search_finished[1].results = <<>>
  /\ aborted # {}
  /\ ~provider_alive

\* Two parts joined by one space when neither is empty.
Joined(x, y) == IF x # "" /\ y # "" THEN x \o " " \o y ELSE x \o y

\* C29: StartSearch returns false and sends nothing when the service is
\* missing or not authenticated or when artist, album and title are all
\* empty; otherwise it returns true and sends exactly one request: to
\* search/tracks with artist and title iff the album is empty and the title
\* is not, else to search/albums with artist and album, the parts joined by
\* one space only when both are non-empty.
C29_Call ==
  LET artist == started'.artist
      album == started'.album
      title == started'.title
  IN IF \/ ~service_.present \/ ~service_.authenticated
        \/ (artist = "" /\ album = "" /\ title = "")
     THEN ~started'.result /\ sent' = sent /\ replies_' = replies_
     ELSE /\ started'.result
          /\ Len(sent') = Len(sent) + 1
          /\ SubSeq(sent', 1, Len(sent)) = sent
          /\ LET request == sent'[Len(sent')]
             IN IF album = "" /\ title # ""
                THEN /\ request.resource = "search/tracks"
                     /\ request.query = Joined(artist, title)
                ELSE /\ request.resource = "search/albums"
                     /\ request.query = Joined(artist, album)
C29_StartSearchRequest == [][started' # started => C29_Call]_vars
\* A search for an artist and a title without album has been sent, with
\* a service that is logged in.
C29_Witness ==
  /\ started.op = "StartSearch" /\ started.result
  /\ started.artist = "R" /\ started.album = "" /\ started.title = "S"
  /\ sent[Len(sent)].resource = "search/tracks"
  /\ sent[Len(sent)].query = "R S"

\* The valid items of an array, in its order.
ValidOf(array_items) == SelectSeq(array_items, LAMBDA x : x \in ValidItems)

\* C30: for a well-formed reply HandleSearchReply emits three results for
\* each valid item, in the order 1280x1280, 750x750, 640x640, the three with
\* the item's rank; ranks are 1, 2, 3, ... in item order over the valid items
\* only: an invalid item gives no result and takes no rank.
C30_Ranked(results, array_items) ==
  LET valid == ValidOf(array_items)
  IN /\ Len(results) = 3 * Len(valid)
     /\ \A k \in 1..Len(valid) : \A j \in 1..3 :
           LET result == results[3 * (k - 1) + j]
           IN /\ result.number = k
              /\ result.image_size = <<"1280x1280", "750x750", "640x640">>[j]
              /\ result.artist =
                   jsonToString(valid[k].f["artist"].f["name"])
C30_ThreeResultsPerValidItem ==
  [][\A r \in network :
       ("body" \in DOMAIN r /\ provider_alive' /\ r \notin network') =>
          /\ Len(search_finished') = Len(search_finished) + 1
          /\ C30_Ranked(search_finished'[Len(search_finished')].results,
                        r.body.data.f["items"].a)]_vars
\* A reply with two valid items has been handled: six results, the first
\* three of rank 1 and the last three of rank 2.
C30_Witness ==
  /\ Len(search_finished) = 1
  /\ Len(search_finished[1].results) = 6
  /\ search_finished[1].results[3].number = 1
  /\ search_finished[1].results[4].number = 2
  /\ search_finished[1].results[4].image_size = "1280x1280"

\* The reply ended with an error of the transport.
TransportFailed(reply) == reply.error # 0 /\ reply.error < 200
\* The bytes are a JSON object with status 401, subStatus 6001 and a
\* userMessage.
SaysSessionExpired(bytes) ==
  /\ bytes.t = "object"
  /\ {"status", "subStatus", "userMessage"} \subseteq DOMAIN bytes.f
  /\ bytes.f["status"] = [t |-> "number", n |-> 401]
  /\ bytes.f["subStatus"] = [t |-> "number", n |-> 6001]

\* C31: GetReplyData returns the body only for a reply without error and
\* with HTTP status 200, and empty data otherwise; it logs the service out
\* iff the body of a failed reply is a JSON object with status 401,
\* subStatus 6001 and a userMessage, and never after an error of the
\* transport.
C31_Returned(reply) ==
  LET ok == reply.error = 0 /\ reply.status = 200
      got == GetReplyData(reply)
  IN /\ got.data = IF ok THEN reply.data ELSE [t |-> "empty"]
     /\ got.logout <=>
          (~ok /\ ~TransportFailed(reply) /\ SaysSessionExpired(reply.data))
C31_ReplyDataAndLogout ==
  [][\A r \in network :
       ("body" \in DOMAIN r /\ provider_alive' /\ r \notin network') =>
          /\ C31_Returned(r.body)
          /\ service_'.authenticated =
               (service_.authenticated /\ ~GetReplyData(r.body).logout)
          /\ TransportFailed(r.body) => service_' = service_]_vars
\* The service has been logged out by a reply, and the search was answered
\* without results.
C31_Witness ==
  /\ ~service_.authenticated
  /\ Len(search_finished) = 1 /\ search_finished[1].results = <<>>

\* The step is a press of the next or of the previous button.
Pressed(button) == plast' # plast /\ plast'.op = button

\* C32: on a list of count > 0 rows NextSong and PreviousSong select a row
\* in [0, count), also from no current row and with one row: Next goes from
\* r to (r + 1) mod count, Previous to (r - 1 + count) mod count; Next and
\* then Previous, and Previous and then Next, lead from a current row back
\* to it; on an empty list both change nothing.
C32_Moves(button, target) ==
  Pressed(button) =>
     IF Len(data_) = 0
     THEN current_row' = current_row /\ sel' = sel /\ data_' = data_
     ELSE /\ current_row' \in 0..(Len(data_) - 1)
          /\ current_row' = target
          /\ sel' = <<current_row' + 1>>
          /\ data_' = data_
C32_Back(first, second) ==
  (/\ plast.op = first /\ plast.v.v \in 0..(Len(data_) - 1)
   /\ Pressed(second)) => current_row' = plast.v.v
C32_NextPreviousWrap ==
  [][/\ C32_Moves("NextSong", (current_row + 1) % Len(data_))
     /\ C32_Moves("PreviousSong",
                  (current_row - 1 + Len(data_)) % Len(data_))
     /\ C32_Back("NextSong", "PreviousSong")
     /\ C32_Back("PreviousSong", "NextSong")]_vars
\* Previous has been pressed on the first of three rows and has wrapped to
\* the last one.
C32_Witness ==
  /\ Len(data_) = 3
  /\ plast.op = "PreviousSong" /\ plast.v.v = 0
  /\ current_row = 2 /\ sel = <<3>>

====
